---- MODULE Spec2Model ----
(***************************************************************************)
(* Model of the B+-tree drafts of this repository.                         *)
(*                                                                         *)
(*   BPlusTree (src/main.rs): a B+-tree over a page store, with path       *)
(*   capture, leaf split (copy up), internal split (push up) and root      *)
(*   growth.  Keys are ValueType([u32; 2]) compared lexicographically,     *)
(*   values are u64.                                                       *)
(*                                                                         *)
(*   BTree (src/btree.rs): a B-tree of Records over NodeStorage             *)
(*   (src/node_storage.rs), with compensation and split_recursive.         *)
(*                                                                         *)
(*   The page stores: InMemoryStorage (src/storage.rs), FileStorage        *)
(*   (src/file_storage.rs, bincode pages of PAGE_SIZE bytes with read and  *)
(*   write counters) and NodeStorage (src/node_storage.rs).                *)
(*                                                                         *)
(* Page indices are 0-based as in the source; the page vector is a TLA+    *)
(* sequence, so page loc is element loc + 1.  Option<T> is modelled as a   *)
(* sequence of length 0 (None) or 1 (Some).                                *)
(***************************************************************************)
EXTENDS Integers, Sequences, FiniteSets, TLC

\* src/main.rs:6
MAX_KEYS == 4

\* Bounds of the explored inputs.  Key number i is ValueType([i / KeyWidth,
\* i % KeyWidth]); the numbering is monotone for the lexicographic order.
\* Spec inserts the first NumKeys keys with values 1..MaxVal in any order
\* and any number of times; SpecDeep inserts the first DeepKeys keys, each
\* once, in any order that keeps the inserted key numbers in at most MaxRuns
\* runs of consecutive numbers (trees of three levels without enumerating
\* every subset of the keys).  SpecTall inserts the first TallKeys keys, each
\* once, growing one run of consecutive numbers at either end, which is
\* enough for an internal node below the root to overflow.
KeyWidth == 3
NumKeys == 5
MaxVal == 2
DeepKeys == 15
MaxRuns == 1
TallKeys == 19

Key(i) == <<i \div KeyWidth, i % KeyWidth>>
Keys == {Key(i) : i \in 0..(NumKeys - 1)}
Vals == 1..MaxVal
DeepKeySet == {Key(i) : i \in 0..(DeepKeys - 1)}
TallKeySet == {Key(i) : i \in 0..(TallKeys - 1)}
AllKeys == Keys \cup DeepKeySet \cup TallKeySet

\* src/config.rs:1-2 (btree.rs imports MAX_KEYS from crate::consts)
DEGREE == 2
BT_MAX_KEYS == DEGREE * 2 + 1
I32_MAX == 2147483647
I32_MIN == -I32_MAX - 1

\* SpecBTree inserts the keys i32::MIN, i32::MAX and 1..BTMidKeys with
\* payloads 1..MaxVal while the file holds fewer than BTMaxPages pages.
BTMidKeys == 4
BTMaxPages == 4

BTKeys == {I32_MIN, I32_MAX} \cup (1..BTMidKeys)

\* SpecCompensate opens a file that already holds a root with two keys above
\* three leaves of BT_MAX_KEYS - CompSlack .. BT_MAX_KEYS records each, and
\* makes at most CompMaxInserts inserts, each resolved without a split, of
\* keys that lie before or after the records of a leaf.
CompSlack == 2
CompMaxInserts == 3

\* SpecStore makes at most MaxOps calls of write_node and read_node on the
\* page indices 0..MaxLoc.
MaxLoc == 2
MaxOps == 2
\* the number of entries of the oversized leaf
BigLen == 26

\* SpecNodeStore makes at most MaxNsOps calls of append_node and read_node.
MaxNsOps == 4

\* nodes, root_loc: the BPlusTree of main.rs and its page store;
\* file: the pages of the NodeStorage of the BTree of btree.rs;
\* model, bt_model: the ordered maps the two trees are compared with;
\* last: the last operation.
\* fs, mem: a FileStorage and an InMemoryStorage of storage.rs that receive
\* the same calls; written: the node last written to each page index;
\* nst: a NodeStorage with its counters; appended: the nodes appended to it.
VARIABLES nodes, root_loc, model, last, file, bt_model,
          fs, mem, written, nst, appended

vars == <<nodes, root_loc, model, last, file, bt_model,
          fs, mem, written, nst, appended>>
bt_vars == <<file, bt_model>>
tree_vars == <<nodes, root_loc, model>>
st_vars == <<fs, mem, written>>
nst_vars == <<nst, appended>>

----------------------------------------------------------------------------
\* Option<T>
None == <<>>
Some(x) == <<x>>
IsSome(o) == Len(o) = 1
Unwrap(o) == o[1]

\* FileStorage::new on a new file: no pages, both counters 0
FileStorage_new == [pages |-> <<>>, page_reads |-> 0, page_writes |-> 0]
\* NodeStorage::open on a new file
NodeStorage_open == [file |-> <<>>, page_reads |-> 0, page_writes |-> 0]

\* derived Ord of ValueType([u32; 2]): lexicographic on the array
KeyLt(a, b) == a[1] < b[1] \/ (a[1] = b[1] /\ a[2] < b[2])
KeyGe(a, b) == ~KeyLt(a, b)

\* enum Node
LeafNode(keys, values, next) ==
    [kind |-> "Leaf", keys |-> keys, values |-> values, next |-> next]
InternalNode(keys, children) ==
    [kind |-> "Internal", keys |-> keys, children |-> children]

\* Vec::insert(i, x), i 0-based
VecInsert(s, i, x) == SubSeq(s, 1, i) \o <<x>> \o SubSeq(s, i + 1, Len(s))
\* s[from..] and s[..to], 0-based
SliceFrom(s, from) == SubSeq(s, from + 1, Len(s))
SliceTo(s, to) == SubSeq(s, 1, to)

----------------------------------------------------------------------------
\* InMemoryStorage
read_node(ns, loc) == IF loc < Len(ns) THEN ns[loc + 1] ELSE None

write_node(ns, loc, node) ==
    LET grown == IF loc >= Len(ns)
                 THEN ns \o [i \in 1..(loc + 1 - Len(ns)) |-> None]
                 ELSE ns
    IN [grown EXCEPT ![loc + 1] = Some(node)]

total_nodes(ns) == Len(ns)

\* A tree value during one operation: the store, the root location, the
\* read_node calls made so far (page, returned value), the pages written so
\* far, and whether the operation panicked.
Tree(ns, root) ==
    [nodes |-> ns, root_loc |-> root, reads |-> <<>>, writes |-> <<>>,
     panic |-> FALSE]
TRead(t, loc) ==
    [t EXCEPT !.reads = Append(@, <<loc, read_node(t.nodes, loc)>>)]
TWrite(t, loc, node) ==
    [t EXCEPT !.nodes = write_node(@, loc, node), !.writes = Append(@, loc)]
TPanic(t) == [t EXCEPT !.panic = TRUE]

----------------------------------------------------------------------------
\* the routing loop: i = 0; while i < keys.len() && key >= keys[i] { i += 1 }
RECURSIVE RouteFrom(_, _, _)
RouteFrom(keys, key, i) ==
    IF i < Len(keys) /\ KeyGe(key, keys[i + 1])
    THEN RouteFrom(keys, key, i + 1)
    ELSE i
RouteIndex(keys, key) == RouteFrom(keys, key, 0)

\* BPlusTree::open
open(storage) ==
    [nodes |-> write_node(storage, 0, LeafNode(<<>>, <<>>, None)),
     root_loc |-> 0]

\* BPlusTree::find, the leaf scan
RECURSIVE LeafScan(_, _, _)
LeafScan(leaf, key, i) ==
    IF i >= Len(leaf.keys) THEN None
    ELSE IF leaf.keys[i + 1] = key THEN Some(leaf.values[i + 1])
    ELSE LeafScan(leaf, key, i + 1)

\* FindFrom with the routing comparison key > keys[i] instead of key >= keys[i]
RECURSIVE RouteFromStrict(_, _, _)
RouteFromStrict(keys, key, i) ==
    IF i < Len(keys) /\ KeyLt(keys[i + 1], key)
    THEN RouteFromStrict(keys, key, i + 1)
    ELSE i
RECURSIVE FindFrom_StrictRoute(_, _, _)
FindFrom_StrictRoute(ns, current_loc, key) ==
    LET node == read_node(ns, current_loc) IN
    IF node = None THEN None
    ELSE IF Unwrap(node).kind = "Internal"
    THEN FindFrom_StrictRoute(ns,
             Unwrap(node).children[RouteFromStrict(Unwrap(node).keys, key, 0) + 1],
             key)
    ELSE LeafScan(Unwrap(node), key, 0)

\* BPlusTree::find, the loop from current_loc
RECURSIVE FindFrom(_, _, _)
FindFrom(ns, current_loc, key) ==
    LET node == read_node(ns, current_loc) IN
    IF node = None THEN None
    ELSE IF Unwrap(node).kind = "Internal"
    THEN FindFrom(ns,
                  Unwrap(node).children[RouteIndex(Unwrap(node).keys, key) + 1],
                  key)
    ELSE LeafScan(Unwrap(node), key, 0)

find(ns, root, key) == FindFrom(ns, root, key)

----------------------------------------------------------------------------
\* the descent of insert reading every page twice: once to test its kind and
\* once more to use it
RECURSIVE Descend_ReadTwice(_, _, _, _)
Descend_ReadTwice(t, key, current_loc, path) ==
    LET node == read_node(t.nodes, current_loc)
        t1 == TRead(TRead(t, current_loc), current_loc)
    IN IF node = None
       THEN [t |-> TPanic(t1), loc |-> current_loc, node |-> None,
             path |-> path]
       ELSE IF Unwrap(node).kind = "Internal"
       THEN LET internal == Unwrap(node)
                i == RouteIndex(internal.keys, key)
            IN Descend_ReadTwice(t1, key, internal.children[i + 1],
                                 Append(path, <<current_loc, internal>>))
       ELSE [t |-> t1, loc |-> current_loc, node |-> node, path |-> path]

\* BPlusTree::insert, the descent that records the path (lines 81-94).
\* read_node(..).unwrap() panics on an empty page.
RECURSIVE Descend(_, _, _, _)
Descend(t, key, current_loc, path) ==
    LET node == read_node(t.nodes, current_loc)
        t1 == TRead(t, current_loc)
    IN IF node = None
       THEN [t |-> TPanic(t1), loc |-> current_loc, node |-> None,
             path |-> path]
       ELSE IF Unwrap(node).kind = "Internal"
       THEN LET internal == Unwrap(node)
                i == RouteIndex(internal.keys, key)
            IN Descend(t1, key, internal.children[i + 1],
                       Append(path, <<current_loc, internal>>))
       ELSE [t |-> t1, loc |-> current_loc, node |-> node, path |-> path]

\* LeafPutFrom without the key < *k branch: a new key is always pushed last
RECURSIVE LeafPutFrom_PushOnly(_, _, _, _)
LeafPutFrom_PushOnly(leaf, key, value, i) ==
    IF i >= Len(leaf.keys)
    THEN [leaf EXCEPT !.keys = Append(@, key), !.values = Append(@, value)]
    ELSE IF leaf.keys[i + 1] = key
    THEN [leaf EXCEPT !.values[i + 1] = value]
    ELSE LeafPutFrom_PushOnly(leaf, key, value, i + 1)

\* LeafPutFrom without the *k == key branch: an equal key is inserted again
RECURSIVE LeafPutFrom_NoUpdate(_, _, _, _)
LeafPutFrom_NoUpdate(leaf, key, value, i) ==
    IF i >= Len(leaf.keys)
    THEN [leaf EXCEPT !.keys = Append(@, key), !.values = Append(@, value)]
    ELSE IF KeyLt(key, leaf.keys[i + 1])
    THEN [leaf EXCEPT !.keys = VecInsert(@, i, key),
                      !.values = VecInsert(@, i, value)]
    ELSE LeafPutFrom_NoUpdate(leaf, key, value, i + 1)

\* LeafPutFrom whose update branch does not set inserted: the value is
\* overwritten and the pair is pushed as well
RECURSIVE LeafPutFrom_UpdateAndPush(_, _, _, _)
LeafPutFrom_UpdateAndPush(leaf, key, value, i) ==
    IF i >= Len(leaf.keys)
    THEN [leaf EXCEPT !.keys = Append(@, key), !.values = Append(@, value)]
    ELSE IF leaf.keys[i + 1] = key
    THEN [leaf EXCEPT !.keys = Append(@, key),
                      !.values = Append([@ EXCEPT ![i + 1] = value], value)]
    ELSE IF KeyLt(key, leaf.keys[i + 1])
    THEN [leaf EXCEPT !.keys = VecInsert(@, i, key),
                      !.values = VecInsert(@, i, value)]
    ELSE LeafPutFrom_UpdateAndPush(leaf, key, value, i + 1)

\* BPlusTree::insert, the insert-or-update loop over the leaf (lines 99-115)
RECURSIVE LeafPutFrom(_, _, _, _)
LeafPutFrom(leaf, key, value, i) ==
    IF i >= Len(leaf.keys)
    THEN [leaf EXCEPT !.keys = Append(@, key), !.values = Append(@, value)]
    ELSE IF leaf.keys[i + 1] = key
    THEN [leaf EXCEPT !.values[i + 1] = value]
    ELSE IF KeyLt(key, leaf.keys[i + 1])
    THEN [leaf EXCEPT !.keys = VecInsert(@, i, key),
                      !.values = VecInsert(@, i, value)]
    ELSE LeafPutFrom(leaf, key, value, i + 1)
LeafPut(leaf, key, value) == LeafPutFrom(leaf, key, value, 0)

\* NewRoot that lists the new sibling before the page that was split
NewRoot_SiblingFirst(t, new_key, loc, new_loc) ==
    LET new_root == InternalNode(<<new_key>>, <<new_loc, loc>>)
        new_root_loc == total_nodes(t.nodes)
    IN [TWrite(t, new_root_loc, new_root) EXCEPT !.root_loc = new_root_loc]

\* NewRoot that allocates the root one page past the end of the store
NewRoot_SkipPage(t, new_key, loc, new_loc) ==
    LET new_root == InternalNode(<<new_key>>, <<loc, new_loc>>)
        new_root_loc == total_nodes(t.nodes) + 1
    IN [TWrite(t, new_root_loc, new_root) EXCEPT !.root_loc = new_root_loc]

\* the "create a new root" branch shared by split_leaf and split_internal
NewRoot(t, new_key, loc, new_loc) ==
    LET new_root == InternalNode(<<new_key>>, <<loc, new_loc>>)
        new_root_loc == total_nodes(t.nodes)
    IN [TWrite(t, new_root_loc, new_root) EXCEPT !.root_loc = new_root_loc]

RECURSIVE insert_into_parent(_, _, _, _)
RECURSIVE split_internal(_, _, _, _)

\* insert_into_parent that takes the first entry of the path (the root)
\* instead of popping the last one (the parent)
insert_into_parent_FrontOfPath(t, key, new_child_loc, path) ==
    LET top == path[1]
        rest == SubSeq(path, 2, Len(path))
        parent_loc == top[1]
        i == RouteIndex(top[2].keys, key)
        parent == InternalNode(VecInsert(top[2].keys, i, key),
                               VecInsert(top[2].children, i + 1, new_child_loc))
        t1 == TWrite(t, parent_loc, parent)
    IN IF Len(parent.keys) > MAX_KEYS
       THEN split_internal(t1, parent_loc, parent, rest)
       ELSE t1

\* insert_into_parent that reads the parent page again instead of using the
\* node captured on the way down
insert_into_parent_Reread(t, key, new_child_loc, path) ==
    LET top == path[Len(path)]
        rest == SubSeq(path, 1, Len(path) - 1)
        parent_loc == top[1]
        t0 == TRead(t, parent_loc)
        stored == Unwrap(read_node(t.nodes, parent_loc))
        i == RouteIndex(stored.keys, key)
        parent == InternalNode(VecInsert(stored.keys, i, key),
                               VecInsert(stored.children, i + 1, new_child_loc))
        t1 == TWrite(t0, parent_loc, parent)
    IN IF Len(parent.keys) > MAX_KEYS
       THEN split_internal(t1, parent_loc, parent, rest)
       ELSE t1

\* insert_into_parent that puts the new child at children[i], to the left of
\* the child that was split
insert_into_parent_ChildAtI(t, key, new_child_loc, path) ==
    LET top == path[Len(path)]
        rest == SubSeq(path, 1, Len(path) - 1)
        parent_loc == top[1]
        i == RouteIndex(top[2].keys, key)
        parent == InternalNode(VecInsert(top[2].keys, i, key),
                               VecInsert(top[2].children, i, new_child_loc))
        t1 == TWrite(t, parent_loc, parent)
    IN IF Len(parent.keys) > MAX_KEYS
       THEN split_internal(t1, parent_loc, parent, rest)
       ELSE t1

\* BPlusTree::insert_into_parent; path is non-empty at both call sites
insert_into_parent(t, key, new_child_loc, path) ==
    LET top == path[Len(path)]
        rest == SubSeq(path, 1, Len(path) - 1)
        parent_loc == top[1]
        i == RouteIndex(top[2].keys, key)
        parent == InternalNode(VecInsert(top[2].keys, i, key),
                               VecInsert(top[2].children, i + 1, new_child_loc))
        t1 == TWrite(t, parent_loc, parent)
    IN IF Len(parent.keys) > MAX_KEYS
       THEN split_internal(t1, parent_loc, parent, rest)
       ELSE t1

\* split_internal that copies the middle key up instead of moving it: the
\* key at mid also stays as the first key of the new right node
split_internal_KeepMid(t, loc, internal, path) ==
    LET mid == Len(internal.keys) \div 2
        new_internal == InternalNode(SliceFrom(internal.keys, mid),
                                     SliceFrom(internal.children, mid + 1))
        new_internal_loc == total_nodes(t.nodes)
        original_internal == InternalNode(SliceTo(internal.keys, mid),
                                          SliceTo(internal.children, mid + 1))
        t1 == TWrite(t, loc, original_internal)
        t2 == TWrite(t1, new_internal_loc, new_internal)
        new_key == internal.keys[mid + 1]
    IN IF path = <<>>
       THEN NewRoot(t2, new_key, loc, new_internal_loc)
       ELSE insert_into_parent(t2, new_key, new_internal_loc, path)

\* split_internal whose left half keeps one child too many: the first child
\* of the new right node stays a child of the left node as well
split_internal_ShareChild(t, loc, internal, path) ==
    LET mid == Len(internal.keys) \div 2
        new_internal == InternalNode(SliceFrom(internal.keys, mid + 1),
                                     SliceFrom(internal.children, mid + 1))
        new_internal_loc == total_nodes(t.nodes)
        original_internal == InternalNode(SliceTo(internal.keys, mid),
                                          SliceTo(internal.children, mid + 2))
        t1 == TWrite(t, loc, original_internal)
        t2 == TWrite(t1, new_internal_loc, new_internal)
        new_key == internal.keys[mid + 1]
    IN IF path = <<>>
       THEN NewRoot(t2, new_key, loc, new_internal_loc)
       ELSE insert_into_parent(t2, new_key, new_internal_loc, path)

\* BPlusTree::split_internal
split_internal(t, loc, internal, path) ==
    LET mid == Len(internal.keys) \div 2
        new_internal == InternalNode(SliceFrom(internal.keys, mid + 1),
                                     SliceFrom(internal.children, mid + 1))
        new_internal_loc == total_nodes(t.nodes)
        original_internal == InternalNode(SliceTo(internal.keys, mid),
                                          SliceTo(internal.children, mid + 1))
        t1 == TWrite(t, loc, original_internal)
        t2 == TWrite(t1, new_internal_loc, new_internal)
        new_key == internal.keys[mid + 1]
    IN IF path = <<>>
       THEN NewRoot(t2, new_key, loc, new_internal_loc)
       ELSE insert_into_parent(t2, new_key, new_internal_loc, path)

\* split_leaf that promotes the last key of the left half instead of the first
\* key of the right half
split_leaf_PromoteLeft(t, loc, leaf, path) ==
    LET mid == Len(leaf.keys) \div 2
        new_leaf == LeafNode(SliceFrom(leaf.keys, mid),
                             SliceFrom(leaf.values, mid), leaf.next)
        new_leaf_loc == total_nodes(t.nodes)
        original_leaf == LeafNode(SliceTo(leaf.keys, mid),
                                  SliceTo(leaf.values, mid),
                                  Some(new_leaf_loc))
        t1 == TWrite(t, loc, original_leaf)
        t2 == TWrite(t1, new_leaf_loc, new_leaf)
        new_key == original_leaf.keys[mid]
    IN IF path = <<>>
       THEN NewRoot(t2, new_key, loc, new_leaf_loc)
       ELSE insert_into_parent(t2, new_key, new_leaf_loc, path)

\* split_leaf whose new right leaf does not inherit the old next link
split_leaf_DropNext(t, loc, leaf, path) ==
    LET mid == Len(leaf.keys) \div 2
        new_leaf == LeafNode(SliceFrom(leaf.keys, mid),
                             SliceFrom(leaf.values, mid), None)
        new_leaf_loc == total_nodes(t.nodes)
        original_leaf == LeafNode(SliceTo(leaf.keys, mid),
                                  SliceTo(leaf.values, mid),
                                  Some(new_leaf_loc))
        t1 == TWrite(t, loc, original_leaf)
        t2 == TWrite(t1, new_leaf_loc, new_leaf)
        new_key == new_leaf.keys[1]
    IN IF path = <<>>
       THEN NewRoot(t2, new_key, loc, new_leaf_loc)
       ELSE insert_into_parent(t2, new_key, new_leaf_loc, path)

\* split_leaf that moves the separator up: the new right leaf starts after
\* the promoted key
split_leaf_MoveUp(t, loc, leaf, path) ==
    LET mid == Len(leaf.keys) \div 2
        new_leaf == LeafNode(SliceFrom(leaf.keys, mid + 1),
                             SliceFrom(leaf.values, mid + 1), leaf.next)
        new_leaf_loc == total_nodes(t.nodes)
        original_leaf == LeafNode(SliceTo(leaf.keys, mid),
                                  SliceTo(leaf.values, mid),
                                  Some(new_leaf_loc))
        t1 == TWrite(t, loc, original_leaf)
        t2 == TWrite(t1, new_leaf_loc, new_leaf)
        new_key == leaf.keys[mid + 1]
    IN IF path = <<>>
       THEN NewRoot(t2, new_key, loc, new_leaf_loc)
       ELSE insert_into_parent(t2, new_key, new_leaf_loc, path)

\* split_leaf that promotes the second key of the new right leaf
split_leaf_PromoteSecond(t, loc, leaf, path) ==
    LET mid == Len(leaf.keys) \div 2
        new_leaf == LeafNode(SliceFrom(leaf.keys, mid),
                             SliceFrom(leaf.values, mid), leaf.next)
        new_leaf_loc == total_nodes(t.nodes)
        original_leaf == LeafNode(SliceTo(leaf.keys, mid),
                                  SliceTo(leaf.values, mid),
                                  Some(new_leaf_loc))
        t1 == TWrite(t, loc, original_leaf)
        t2 == TWrite(t1, new_leaf_loc, new_leaf)
        new_key == new_leaf.keys[2]
    IN IF path = <<>>
       THEN NewRoot(t2, new_key, loc, new_leaf_loc)
       ELSE insert_into_parent(t2, new_key, new_leaf_loc, path)

\* split_leaf that cuts one key before the middle: the left leaf keeps a
\* single key
split_leaf_LowMid(t, loc, leaf, path) ==
    LET mid == Len(leaf.keys) \div 2 - 1
        new_leaf == LeafNode(SliceFrom(leaf.keys, mid),
                             SliceFrom(leaf.values, mid), leaf.next)
        new_leaf_loc == total_nodes(t.nodes)
        original_leaf == LeafNode(SliceTo(leaf.keys, mid),
                                  SliceTo(leaf.values, mid),
                                  Some(new_leaf_loc))
        t1 == TWrite(t, loc, original_leaf)
        t2 == TWrite(t1, new_leaf_loc, new_leaf)
        new_key == new_leaf.keys[1]
    IN IF path = <<>>
       THEN NewRoot(t2, new_key, loc, new_leaf_loc)
       ELSE insert_into_parent(t2, new_key, new_leaf_loc, path)

\* BPlusTree::split_leaf
split_leaf(t, loc, leaf, path) ==
    LET mid == Len(leaf.keys) \div 2
        new_leaf == LeafNode(SliceFrom(leaf.keys, mid),
                             SliceFrom(leaf.values, mid), leaf.next)
        new_leaf_loc == total_nodes(t.nodes)
        original_leaf == LeafNode(SliceTo(leaf.keys, mid),
                                  SliceTo(leaf.values, mid),
                                  Some(new_leaf_loc))
        t1 == TWrite(t, loc, original_leaf)
        t2 == TWrite(t1, new_leaf_loc, new_leaf)
        new_key == new_leaf.keys[1]
    IN IF path = <<>>
       THEN NewRoot(t2, new_key, loc, new_leaf_loc)
       ELSE insert_into_parent(t2, new_key, new_leaf_loc, path)

\* insert that splits a leaf only once it holds more than MAX_KEYS + 1 keys
insert_LateSplit(t0, key, value) ==
    LET d == Descend(t0, key, t0.root_loc, <<>>) IN
    IF d.t.panic THEN d.t
    ELSE LET leaf == LeafPut(Unwrap(d.node), key, value)
             t1 == TWrite(d.t, d.loc, leaf)
         IN IF Len(leaf.keys) > MAX_KEYS + 1
            THEN split_leaf(t1, d.loc, leaf, d.path)
            ELSE t1

\* insert that already splits a leaf holding exactly MAX_KEYS keys
insert_EarlySplit(t0, key, value) ==
    LET d == Descend(t0, key, t0.root_loc, <<>>) IN
    IF d.t.panic THEN d.t
    ELSE LET leaf == LeafPut(Unwrap(d.node), key, value)
             t1 == TWrite(d.t, d.loc, leaf)
         IN IF Len(leaf.keys) >= MAX_KEYS
            THEN split_leaf(t1, d.loc, leaf, d.path)
            ELSE t1

\* BPlusTree::insert
insert(t0, key, value) ==
    LET d == Descend(t0, key, t0.root_loc, <<>>) IN
    IF d.t.panic THEN d.t
    ELSE LET leaf == LeafPut(Unwrap(d.node), key, value)
             t1 == TWrite(d.t, d.loc, leaf)
         IN IF Len(leaf.keys) > MAX_KEYS
            THEN split_leaf(t1, d.loc, leaf, d.path)
            ELSE t1

----------------------------------------------------------------------------
\* The abstract ordered map the tree is compared with: key -> Option<Value>.
EmptyMap == [k \in AllKeys |-> None]

\* What the last operation was: its kind, whether an insert found its key
\* already present, whether a find returned a value.
Op(op, existed, hit) == [op |-> op, existed |-> existed, hit |-> hit]

\* main(): a tree opened over an empty InMemoryStorage
Init ==
    /\ nodes = open(<<>>).nodes
    /\ root_loc = open(<<>>).root_loc
    /\ model = EmptyMap
    /\ last = Op("open", FALSE, FALSE)
    /\ file = <<>>
    /\ bt_model = [k \in BTKeys |-> None]
    /\ fs = FileStorage_new
    /\ mem = <<>>
    /\ written = [loc \in 0..MaxLoc |-> <<>>]
    /\ nst = NodeStorage_open
    /\ appended = <<>>

Insert(key, value) ==
    LET t == insert(Tree(nodes, root_loc), key, value) IN
    /\ ~t.panic
    /\ nodes' = t.nodes
    /\ root_loc' = t.root_loc
    /\ model' = [model EXCEPT ![key] = Some(value)]
    /\ last' = Op("insert", IsSome(model[key]), FALSE)
    /\ UNCHANGED <<bt_vars, st_vars, nst_vars>>

\* find that walks down with self.root_loc instead of the local current_loc:
\* the root location is left at the leaf the search ended in
RECURSIVE FindLeafLoc(_, _, _)
FindLeafLoc(ns, current_loc, key) ==
    LET node == read_node(ns, current_loc) IN
    IF node = None \/ Unwrap(node).kind # "Internal" THEN current_loc
    ELSE FindLeafLoc(ns,
             Unwrap(node).children[RouteIndex(Unwrap(node).keys, key) + 1],
             key)
Find_MovesRoot(key) ==
    /\ last' = Op("find", FALSE, IsSome(find(nodes, root_loc, key)))
    /\ root_loc' = FindLeafLoc(nodes, root_loc, key)
    /\ UNCHANGED <<nodes, model>>
    /\ UNCHANGED <<bt_vars, st_vars, nst_vars>>

Find(key) ==
    /\ last' = Op("find", FALSE, IsSome(find(nodes, root_loc, key)))
    /\ UNCHANGED <<nodes, root_loc, model>>
    /\ UNCHANGED <<bt_vars, st_vars, nst_vars>>

Next ==
    \/ \E key \in Keys, value \in Vals : Insert(key, value)
    \/ \E key \in Keys : Find(key)

Spec == Init /\ [][Next]_vars

\* The number of runs of consecutive key numbers among the inserted keys,
\* once key number i is added.
RunsWith(i) ==
    LET present == {j \in 0..(DeepKeys - 1) : j = i \/ IsSome(model[Key(j)])}
    IN Cardinality({j \in present : (j - 1) \notin present})

DeepInsert(i) ==
    /\ model[Key(i)] = None
    /\ RunsWith(i) <= MaxRuns
    /\ Insert(Key(i), 1)

DeepNext == \E i \in 0..(DeepKeys - 1) : DeepInsert(i)

SpecDeep == Init /\ [][DeepNext]_vars

\* Key number i is inserted first, or next to a key number already inserted.
TallInsert(i) ==
    /\ model[Key(i)] = None
    /\ \/ \A j \in 0..(TallKeys - 1) : model[Key(j)] = None
       \/ i > 0 /\ IsSome(model[Key(i - 1)])
       \/ i < TallKeys - 1 /\ IsSome(model[Key(i + 1)])
    /\ Insert(Key(i), 1)

TallNext == \E i \in 0..(TallKeys - 1) : TallInsert(i)

SpecTall == Init /\ [][TallNext]_vars

----------------------------------------------------------------------------
\* The BTree of btree.rs over the NodeStorage of node_storage.rs.

\* Record: the key and the payload (a, x)
Record(key, x) == [key |-> key, x |-> x]

\* Node::new; keys has MAX_KEYS slots and children MAX_KEYS + 1
Node_new(is_leaf) ==
    [keys |-> [i \in 1..BT_MAX_KEYS |-> None],
     children |-> [i \in 1..(BT_MAX_KEYS + 1) |-> None],
     num_keys |-> 0, is_leaf |-> is_leaf, parent |-> None]

\* NodeStorage::serialize_node: the tag, num_keys, the first num_keys keys,
\* the first num_keys + 1 children and the parent
serialize_node(node) ==
    [tag |-> IF node.is_leaf THEN "L" ELSE "I",
     num_keys |-> node.num_keys,
     keys |-> [i \in 1..node.num_keys |-> Unwrap(node.keys[i])],
     children |-> [i \in 1..(node.num_keys + 1) |-> node.children[i]],
     parent |-> node.parent]

\* NodeStorage::deserialize_node
deserialize_node(block) ==
    [keys |-> [i \in 1..BT_MAX_KEYS |->
                  IF i <= Len(block.keys) THEN Some(block.keys[i]) ELSE None],
     children |-> [i \in 1..(BT_MAX_KEYS + 1) |->
                      IF i <= Len(block.children) THEN block.children[i]
                      ELSE None],
     num_keys |-> block.num_keys,
     is_leaf |-> block.tag = "L",
     parent |-> block.parent]

\* a page the file was extended over without writing it
ZeroBlock ==
    [tag |-> "", num_keys |-> 0, keys |-> <<>>, children |-> <<>>,
     parent |-> None]

\* NodeStorage::read_node, for a page inside the file
ns_read_node(f, index) == deserialize_node(f[index + 1])

\* NodeStorage::write_node
ns_write_node(f, index, node) ==
    IF index < Len(f)
    THEN [f EXCEPT ![index + 1] = serialize_node(node)]
    ELSE f \o [i \in 1..(index - Len(f)) |-> ZeroBlock]
           \o <<serialize_node(node)>>

\* NodeStorage::num_nodes
ns_num_nodes(f) == Len(f)

\* append_node that takes num_nodes() - 1 for the index once the file holds
\* a page
ns_append_node_AtLast(f, node) ==
    LET index == IF ns_num_nodes(f) = 0 THEN 0 ELSE ns_num_nodes(f) - 1
    IN [file |-> ns_write_node(f, index, node), index |-> index]

\* NodeStorage::append_node
ns_append_node(f, node) ==
    [file |-> ns_write_node(f, ns_num_nodes(f), node),
     index |-> ns_num_nodes(f)]

\* Vec::sort_by_key(|r| r.key), a stable sort
RECURSIVE SortedInsert(_, _)
SortedInsert(sorted, r) ==
    IF sorted = <<>> THEN <<r>>
    ELSE IF sorted[Len(sorted)].key <= r.key THEN Append(sorted, r)
    ELSE Append(SortedInsert(SubSeq(sorted, 1, Len(sorted) - 1), r),
                sorted[Len(sorted)])
RECURSIVE SortByKey(_)
SortByKey(recs) ==
    IF recs = <<>> THEN <<>>
    ELSE SortedInsert(SortByKey(SubSeq(recs, 1, Len(recs) - 1)),
                      recs[Len(recs)])

\* enum FindResult
EmptyTree == [kind |-> "EmptyTree"]
Found(page, index, node, record) ==
    [kind |-> "Found", page |-> page, index |-> index, node |-> node,
     record |-> record]
NotFound(node, parent) ==
    [kind |-> "NotFound", node |-> node, parent |-> parent]

\* BTree::find, the scan of a leaf (lines 46-57): the first index whose key
\* equals key, or num_keys
RECURSIVE bt_leaf_scan(_, _, _)
bt_leaf_scan(node, key, i) ==
    IF i >= node.num_keys THEN i
    ELSE IF IsSome(node.keys[i + 1]) /\ Unwrap(node.keys[i + 1]).key = key
    THEN i
    ELSE bt_leaf_scan(node, key, i + 1)

\* BTree::find, the loop over the keys of an internal node (lines 64-89)
RECURSIVE bt_route(_, _, _, _)
bt_route(node, key, i, prev_key) ==
    IF i >= node.num_keys THEN [found |-> FALSE, i |-> node.num_keys]
    ELSE LET node_key == Unwrap(node.keys[i + 1]).key IN
         IF key = node_key THEN [found |-> TRUE, i |-> i]
         ELSE IF prev_key < key /\ key < node_key
         THEN [found |-> FALSE, i |-> i]
         ELSE bt_route(node, key, i + 1, node_key)

\* BTree::find, the 'outer loop from page current
RECURSIVE bt_find_from(_, _, _, _)
bt_find_from(f, current, parent, key) ==
    LET node == ns_read_node(f, current) IN
    IF node.is_leaf
    THEN LET i == bt_leaf_scan(node, key, 0) IN
         IF i < node.num_keys
         THEN Found(current, i, node, Unwrap(node.keys[i + 1]))
         ELSE NotFound(<<node, current>>, parent)
    ELSE LET step == bt_route(node, key, 0, I32_MIN) IN
         IF step.found
         THEN Found(current, step.i, node, Unwrap(node.keys[step.i + 1]))
         ELSE bt_find_from(f, Unwrap(node.children[step.i + 1]),
                           Some(<<node, current>>), key)

\* find that starts at the page split_recursive returned last: the last page
\* of the file once a root was appended, page 0 before
bt_find_FromNewRoot(f, key) ==
    IF ns_num_nodes(f) = 0 THEN EmptyTree
    ELSE bt_find_from(f, IF ns_num_nodes(f) > 1 THEN ns_num_nodes(f) - 1
                         ELSE 0, None, key)

\* BTree::find
bt_find(f, key) ==
    IF ns_num_nodes(f) = 0 THEN EmptyTree
    ELSE bt_find_from(f, 0, None, key)

\* BTree::search
search(f, key) ==
    LET r == bt_find(f, key) IN
    IF r.kind = "Found" THEN Some(r.record) ELSE None

\* BTree::try_insert_without_split
RECURSIVE bt_insert_pos(_, _, _)
bt_insert_pos(node, key, pos) ==
    IF pos < node.num_keys /\ Unwrap(node.keys[pos + 1]).key < key.key
    THEN bt_insert_pos(node, key, pos + 1)
    ELSE pos
try_insert_without_split(node, key) ==
    IF node.num_keys >= BT_MAX_KEYS THEN None
    ELSE LET pos == bt_insert_pos(node, key, 0) IN
         Some([node EXCEPT
                 !.keys = [j \in 1..BT_MAX_KEYS |->
                              IF j = pos + 1 THEN Some(key)
                              ELSE IF j > pos + 1 /\ j <= node.num_keys + 1
                              THEN node.keys[j - 1]
                              ELSE node.keys[j]],
                 !.num_keys = @ + 1])

\* the Some entries of a key array, in order
RECURSIVE SomeKeys(_)
SomeKeys(keys) ==
    IF keys = <<>> THEN <<>>
    ELSE (IF IsSome(Head(keys)) THEN <<Unwrap(Head(keys))>> ELSE <<>>)
         \o SomeKeys(Tail(keys))

\* iter().position(..): the 0-based index of the first element of s in the
\* set hits, None when there is none
RECURSIVE PositionFrom(_, _, _)
PositionFrom(s, hits, i) ==
    IF i >= Len(s) THEN None
    ELSE IF s[i + 1] \in hits THEN Some(i)
    ELSE PositionFrom(s, hits, i + 1)

\* a key array holding recs[from + 1 .. from + n] in its first n slots
KeyArray(recs, from, n) ==
    [j \in 1..BT_MAX_KEYS |-> IF j <= n THEN Some(recs[from + j]) ELSE None]

\* redistribute that writes the new separator into the parent slot before
\* the one the predicate found, when there is one
redistribute_SlotBefore(left, left_page, parent, parent_page, right, right_page, record) ==
    LET left_keys == SomeKeys(SubSeq(left.keys, 1, left.num_keys))
        last_left_key == left_keys[Len(left_keys)].key
        idx ==
            Unwrap(PositionFrom(parent.keys,
                       {k \in {parent.keys[j] : j \in DOMAIN parent.keys} :
                            IsSome(k) /\ Unwrap(k).key > last_left_key}, 0))
        separating_key == Unwrap(parent.keys[idx + 1])
        all_keys ==
            SortByKey(left_keys \o <<separating_key>>
                      \o SomeKeys(SubSeq(right.keys, 1, right.num_keys))
                      \o <<record>>)
        total_keys == Len(all_keys)
        left_num == total_keys \div 2
        right_num == total_keys - left_num - 1
        middle_key == all_keys[left_num + 1]
        right_start == left_num + 1
        slot == IF idx > 0 THEN idx - 1 ELSE idx
    IN << <<[left EXCEPT !.keys = KeyArray(all_keys, 0, left_num),
                         !.num_keys = left_num,
                         !.parent = Some(parent_page)], left_page>>,
          <<[parent EXCEPT !.keys[slot + 1] = Some(middle_key)],
            parent_page>>,
          <<[right EXCEPT !.keys = KeyArray(all_keys, right_start, right_num),
                          !.num_keys = right_num,
                          !.parent = Some(parent_page)], right_page>> >>

\* BTree::redistribute
redistribute(left, left_page, parent, parent_page, right, right_page, record) ==
    LET left_keys == SomeKeys(SubSeq(left.keys, 1, left.num_keys))
        last_left_key == left_keys[Len(left_keys)].key
        separator_idx ==
            Unwrap(PositionFrom(parent.keys,
                       {k \in {parent.keys[j] : j \in DOMAIN parent.keys} :
                            IsSome(k) /\ Unwrap(k).key > last_left_key}, 0))
        separating_key == Unwrap(parent.keys[separator_idx + 1])
        all_keys ==
            SortByKey(left_keys \o <<separating_key>>
                      \o SomeKeys(SubSeq(right.keys, 1, right.num_keys))
                      \o <<record>>)
        total_keys == Len(all_keys)
        left_num == total_keys \div 2
        right_num == total_keys - left_num - 1
        middle_key == all_keys[left_num + 1]
        right_start == left_num + 1
    IN << <<[left EXCEPT !.keys = KeyArray(all_keys, 0, left_num),
                         !.num_keys = left_num,
                         !.parent = Some(parent_page)], left_page>>,
          <<[parent EXCEPT !.keys[separator_idx + 1] = Some(middle_key)],
            parent_page>>,
          <<[right EXCEPT !.keys = KeyArray(all_keys, right_start, right_num),
                          !.num_keys = right_num,
                          !.parent = Some(parent_page)], right_page>> >>

\* BTree::try_compensate; node and parent are (Node, page) pairs
try_compensate(f, node, parent, input) ==
    IF parent = None THEN None
    ELSE
    LET par == Unwrap(parent)[1]
        parent_idx == Unwrap(parent)[2]
        node_idx == node[2]
        pos == PositionFrom(par.children, {Some(node_idx)}, 0)
    IN IF pos = None THEN None
       ELSE
       LET p == Unwrap(pos)
           left_opt == IF p > 0 THEN par.children[p] ELSE None
           right_opt == IF p + 1 < Len(par.children)
                        THEN par.children[p + 2] ELSE None
       IN IF p > 0 /\ left_opt = None THEN None
          ELSE IF p > 0
                  /\ ns_read_node(f, Unwrap(left_opt)).is_leaf
                  /\ ns_read_node(f, Unwrap(left_opt)).num_keys < BT_MAX_KEYS
          THEN Some(redistribute(ns_read_node(f, Unwrap(left_opt)),
                                 Unwrap(left_opt), par, parent_idx,
                                 node[1], node_idx, input))
          ELSE IF p + 1 < Len(par.children) /\ right_opt = None THEN None
          ELSE IF p + 1 < Len(par.children)
                  /\ ns_read_node(f, Unwrap(right_opt)).is_leaf
                  /\ ns_read_node(f, Unwrap(right_opt)).num_keys < BT_MAX_KEYS
          THEN Some(redistribute(node[1], node_idx, par, parent_idx,
                                 ns_read_node(f, Unwrap(right_opt)),
                                 Unwrap(right_opt), input))
          ELSE None

\* split_recursive, lines 291-304: rewrite the parent pointer of the
\* children[0..=n] that are Some
RECURSIVE bt_set_parents(_, _, _, _, _)
bt_set_parents(f, children, i, n, p) ==
    IF i > n THEN f
    ELSE IF children[i + 1] = None
    THEN bt_set_parents(f, children, i + 1, n, p)
    ELSE LET child_page == Unwrap(children[i + 1])
             child == ns_read_node(f, child_page)
         IN bt_set_parents(
                ns_write_node(f, child_page, [child EXCEPT !.parent = Some(p)]),
                children, i + 1, n, p)

\* BTree::split_recursive; the result is the file and the returned page
RECURSIVE split_recursive(_, _, _)
split_recursive(f, node_page, input) ==
    LET node == ns_read_node(f, node_page)
        keys == SortByKey(Append(SomeKeys(node.keys), input))
        mid == Len(keys) \div 2
        middle_key == keys[mid + 1]
        right_num == Len(keys) - mid - 1
        left_node ==
            [Node_new(node.is_leaf) EXCEPT
                !.num_keys = mid,
                !.keys = KeyArray(keys, 0, mid),
                !.children = IF node.is_leaf THEN @
                             ELSE [j \in 1..(BT_MAX_KEYS + 1) |->
                                      IF j <= mid + 1 THEN node.children[j]
                                      ELSE None]]
        right_node ==
            [Node_new(node.is_leaf) EXCEPT
                !.num_keys = right_num,
                !.keys = KeyArray(keys, mid + 1, right_num),
                !.children = IF node.is_leaf THEN @
                             ELSE [j \in 1..(BT_MAX_KEYS + 1) |->
                                      IF j <= right_num + 1
                                      THEN node.children[mid + 1 + j]
                                      ELSE None]]
        f1 == IF node.is_leaf THEN f
              ELSE LET fl == bt_set_parents(f, left_node.children, 0,
                                            left_node.num_keys, node_page)
                   IN bt_set_parents(fl, right_node.children, 0,
                                     right_node.num_keys, ns_num_nodes(fl))
    IN IF node_page = 0
       THEN LET f2 == ns_write_node(f1, node_page, left_node)
                left_page == node_page
                ar == ns_append_node(f2, right_node)
                right_page == ar.index
                new_root ==
                    [Node_new(FALSE) EXCEPT
                        !.keys[1] = Some(middle_key),
                        !.children[1] = Some(left_page),
                        !.children[2] = Some(right_page),
                        !.num_keys = 1,
                        !.parent = None]
                up == Some(ns_num_nodes(ar.file))
                f3 == ns_write_node(ar.file, left_page,
                                    [left_node EXCEPT !.parent = up])
                f4 == ns_write_node(f3, right_page,
                                    [right_node EXCEPT !.parent = up])
                an == ns_append_node(f4, new_root)
            IN [file |-> an.file, page |-> Some(an.index)]
       ELSE LET al == ns_append_node(f1, left_node)
                ar == ns_append_node(al.file, right_node)
                right_page == ar.index
                parent_page == Unwrap(node.parent)
                parent == ns_read_node(ar.file, parent_page)
                key_pos == bt_insert_pos(parent, middle_key, 0)
                new_parent ==
                    [parent EXCEPT
                        !.keys = [j \in 1..BT_MAX_KEYS |->
                                     IF j = key_pos + 1 THEN Some(middle_key)
                                     ELSE IF j > key_pos + 1
                                             /\ j <= parent.num_keys + 1
                                     THEN parent.keys[j - 1]
                                     ELSE parent.keys[j]],
                        !.children = [j \in 1..(BT_MAX_KEYS + 1) |->
                                     IF j = key_pos + 2 THEN Some(right_page)
                                     ELSE IF j > key_pos + 2
                                             /\ j <= parent.num_keys + 2
                                     THEN parent.children[j - 1]
                                     ELSE parent.children[j]],
                        !.num_keys = @ + 1]
                f5 == ns_write_node(ar.file, parent_page, new_parent)
            IN IF new_parent.num_keys = BT_MAX_KEYS
               THEN split_recursive(f5, parent_page, middle_key)
               ELSE [file |-> f5, page |-> None]

\* the loop of BTree::insert that writes the nodes try_compensate returned
RECURSIVE bt_write_all(_, _)
bt_write_all(f, updated) ==
    IF updated = <<>> THEN f
    ELSE bt_write_all(ns_write_node(f, Head(updated)[2], Head(updated)[1]),
                      Tail(updated))

\* BTree::insert
bt_insert(f, input) ==
    LET r == bt_find(f, input.key) IN
    IF r.kind = "Found"
    THEN ns_write_node(f, r.page,
                       [r.node EXCEPT !.keys[r.index + 1] = Some(input)])
    ELSE IF r.kind = "EmptyTree"
    THEN ns_append_node(f, [Node_new(TRUE) EXCEPT !.keys[1] = Some(input),
                                                 !.num_keys = 1,
                                                 !.parent = None]).file
    ELSE LET updated_node == try_insert_without_split(r.node[1], input) IN
         IF IsSome(updated_node)
         THEN ns_write_node(f, r.node[2], Unwrap(updated_node))
         ELSE LET updated_nodes == try_compensate(f, r.node, r.parent, input) IN
              IF IsSome(updated_nodes)
              THEN bt_write_all(f, Unwrap(updated_nodes))
              ELSE split_recursive(f, r.node[2], input).file

\* tests::create_btree, BTree::insert, BTree::search
BTInsert(key, x) ==
    /\ ns_num_nodes(file) < BTMaxPages
    /\ file' = bt_insert(file, Record(key, x))
    /\ bt_model' = [bt_model EXCEPT ![key] = Some(Record(key, x))]
    /\ last' = Op("insert", IsSome(bt_model[key]), FALSE)
    /\ UNCHANGED <<tree_vars, st_vars, nst_vars>>

BTSearch(key) ==
    /\ last' = Op("search", FALSE, IsSome(search(file, key)))
    /\ UNCHANGED <<file, bt_model>>
    /\ UNCHANGED <<tree_vars, st_vars, nst_vars>>

BTNext ==
    \/ \E key \in BTKeys, x \in Vals : BTInsert(key, x)
    \/ \E key \in BTKeys : BTSearch(key)

SpecBTree == Init /\ [][BTNext]_vars

\* tests::create_btree followed by inserts of records that all carry the
\* payload 1, and searches
BTShapeNext ==
    \/ \E key \in BTKeys : BTInsert(key, 1)
    \/ \E key \in BTKeys : BTSearch(key)

SpecBTreeShape == Init /\ [][BTShapeNext]_vars

\* A file as BTree::new finds it when it already holds a tree: page 0 is the
\* root with the keys 200 and 300, pages 1..3 are its leaves, leaf i holding
\* the keys 100 * i + 10 * j for j in 1..sizes[i].
CompSizes == (BT_MAX_KEYS - CompSlack)..BT_MAX_KEYS
CompLeaf(i, n) ==
    [Node_new(TRUE) EXCEPT
        !.keys = [j \in 1..BT_MAX_KEYS |->
                     IF j <= n THEN Some(Record(100 * i + 10 * j, 1))
                     ELSE None],
        !.num_keys = n,
        !.parent = Some(0)]
CompRoot ==
    [Node_new(FALSE) EXCEPT
        !.keys[1] = Some(Record(200, 1)),
        !.keys[2] = Some(Record(300, 1)),
        !.children[1] = Some(1),
        !.children[2] = Some(2),
        !.children[3] = Some(3),
        !.num_keys = 2]
CompFile(sizes) ==
    <<serialize_node(CompRoot), serialize_node(CompLeaf(1, sizes[1])),
      serialize_node(CompLeaf(2, sizes[2])),
      serialize_node(CompLeaf(3, sizes[3]))>>

\* the keys inserted: just before and just after the records of each leaf
CompNewKeys == {100 * i + 5 : i \in 1..3} \cup {100 * i + 95 : i \in 1..3}

InitCompensate ==
    /\ \E sizes \in [1..3 -> CompSizes] : file = CompFile(sizes)
    /\ bt_model = [k \in CompNewKeys |-> None]
    /\ last = Op("open", FALSE, FALSE)
    /\ nodes = open(<<>>).nodes
    /\ root_loc = open(<<>>).root_loc
    /\ model = EmptyMap
    /\ fs = FileStorage_new
    /\ mem = <<>>
    /\ written = [loc \in 0..MaxLoc |-> <<>>]
    /\ nst = NodeStorage_open
    /\ appended = <<>>

\* BTree::insert returns from its step 1 or 2 (lines 388-400): the record fits
\* the leaf, or compensation succeeds
ResolvedWithoutSplit(f, input) ==
    LET r == bt_find(f, input.key) IN
    /\ r.kind = "NotFound"
    /\ \/ IsSome(try_insert_without_split(r.node[1], input))
       \/ IsSome(try_compensate(f, r.node, r.parent, input))

\* an insert of a new key that needs no split
CompInsert(key) ==
    /\ bt_model[key] = None
    /\ Cardinality({k \in CompNewKeys : IsSome(bt_model[k])}) < CompMaxInserts
    /\ ResolvedWithoutSplit(file, Record(key, 2))
    /\ file' = bt_insert(file, Record(key, 2))
    /\ bt_model' = [bt_model EXCEPT ![key] = Some(Record(key, 2))]
    /\ last' = Op("insert", FALSE, FALSE)
    /\ UNCHANGED <<tree_vars, st_vars, nst_vars>>

CompensateNext == \E key \in CompNewKeys : CompInsert(key)

SpecCompensate == InitCompensate /\ [][CompensateNext]_vars

----------------------------------------------------------------------------
\* A NodeStorage with its counters: [file, page_reads, page_writes].

\* NodeStorage::write_node with the counter
nst_write_node(st, index, node) ==
    [st EXCEPT !.file = ns_write_node(@, index, node), !.page_writes = @ + 1]

\* NodeStorage::append_node with the counter: the store afterwards and the
\* returned index
nst_append_node(st, node) ==
    LET r == ns_append_node(st.file, node) IN
    [store |-> [st EXCEPT !.file = r.file, !.page_writes = @ + 1],
     index |-> r.index]

\* NodeStorage::read_node with the counter, for a page inside the file
nst_read_node(st, index) ==
    [store |-> [st EXCEPT !.page_reads = @ + 1],
     node |-> ns_read_node(st.file, index)]

\* tests::random_node: num_keys records, num_keys + 1 children, a parent
NodeOfParts(is_leaf, recs, children, parent) ==
    [Node_new(is_leaf) EXCEPT
        !.num_keys = Len(recs),
        !.keys = [i \in 1..BT_MAX_KEYS |->
                     IF i <= Len(recs) THEN Some(recs[i]) ELSE None],
        !.children = [i \in 1..(BT_MAX_KEYS + 1) |->
                         IF i <= Len(children) THEN children[i] ELSE None],
        !.parent = parent]

\* The nodes SpecNodeStore appends: a leaf with one record, a full leaf with
\* the extreme keys, an internal node, and a root leaf without parent.
NsNodes ==
    { NodeOfParts(TRUE, <<Record(7, 1)>>, <<Some(3), Some(99)>>, Some(199)),
      NodeOfParts(TRUE,
                  <<Record(I32_MIN, 1), Record(-1, 2), Record(0, 1),
                    Record(5, 2), Record(I32_MAX, 1)>>,
                  <<Some(0), Some(1), Some(2), Some(3), Some(4), Some(5)>>,
                  Some(0)),
      NodeOfParts(FALSE, <<Record(3, 1), Record(9, 2)>>,
                  <<Some(1), Some(2), Some(4)>>, Some(6)),
      NodeOfParts(TRUE, <<Record(1, 1), Record(2, 1)>>,
                  <<None, None, None>>, None) }

\* What the last call on the NodeStorage was: the index read or returned,
\* the node read, and the size and counters before the call.
NsOp(op, index, node) ==
    [op |-> op, index |-> index, node |-> node,
     total_before |-> ns_num_nodes(nst.file),
     reads_before |-> nst.page_reads, writes_before |-> nst.page_writes]

NsAppend(node) ==
    /\ nst.page_reads + nst.page_writes < MaxNsOps
    /\ nst' = nst_append_node(nst, node).store
    /\ appended' = Append(appended, node)
    /\ last' = NsOp("append", nst_append_node(nst, node).index, None)
    /\ UNCHANGED <<tree_vars, bt_vars, st_vars>>

\* read_node panics past the end of the file (read_exact(..).unwrap())
NsRead(index) ==
    /\ nst.page_reads + nst.page_writes < MaxNsOps
    /\ index < ns_num_nodes(nst.file)
    /\ nst' = nst_read_node(nst, index).store
    /\ last' = NsOp("read", index, Some(nst_read_node(nst, index).node))
    /\ UNCHANGED appended
    /\ UNCHANGED <<tree_vars, bt_vars, st_vars>>

NodeStoreNext ==
    \/ \E node \in NsNodes : NsAppend(node)
    \/ \E index \in 0..(MaxNsOps - 1) : NsRead(index)

SpecNodeStore == Init /\ [][NodeStoreNext]_vars

----------------------------------------------------------------------------
\* The page stores of storage.rs and file_storage.rs.  Their Node is the
\* enum of Header, Leaf (keys: Vec<i32>, values: Vec<Record>, next:
\* Option<usize>) and Internal (keys: Vec<i32>, children: Vec<usize>), with
\* Record = [i32; 7].

\* the Header variant
HeaderNode(root) == [kind |-> "Header", root |-> root]

\* the position of each variant in the enum, which the encoding writes
VariantIndex(kind) ==
    CASE kind = "Header" -> 0
      [] kind = "Leaf" -> 1
      [] kind = "Internal" -> 2

\* InMemoryStorage of storage.rs
ims_read_node(ns, loc) == IF loc < Len(ns) THEN ns[loc + 1] ELSE None

\* write_node that resizes to loc + 1 entries without the test of line 26,
\* dropping the pages after loc
ims_write_node_AlwaysResize(ns, loc, node) ==
    LET sized == IF loc >= Len(ns)
                 THEN ns \o [i \in 1..(loc + 1 - Len(ns)) |-> None]
                 ELSE SubSeq(ns, 1, loc + 1)
    IN [sized EXCEPT ![loc + 1] = Some(node)]

\* InMemoryStorage::write_node
ims_write_node(ns, loc, node) ==
    LET grown == IF loc >= Len(ns)
                 THEN ns \o [i \in 1..(loc + 1 - Len(ns)) |-> None]
                 ELSE ns
    IN [grown EXCEPT ![loc + 1] = Some(node)]

ims_total_nodes(ns) == Len(ns)

\* src/config.rs:3
FS_PAGE_SIZE == 1024

\* bincode, config::standard(): little endian, variable-length integers.
\* A u32 is kept as its two 16-bit halves <<hi, lo>>.
Pow16 == 65536
U16LE(n) == <<n % 256, n \div 256>>

\* ZigZag without the sign bit
ZigZag_Unsigned(v) ==
    LET w == IF v >= 0 THEN v ELSE -(v + 1)
        lo2 == 2 * (w % Pow16)
    IN <<2 * (w \div Pow16) + (lo2 \div Pow16), lo2 % Pow16>>

\* the zigzag image of an i32: 2v for v >= 0 and -2v - 1 for v < 0
ZigZag(v) ==
    LET w == IF v >= 0 THEN v ELSE -(v + 1)
        odd == IF v >= 0 THEN 0 ELSE 1
        lo2 == 2 * (w % Pow16) + odd
    IN <<2 * (w \div Pow16) + (lo2 \div Pow16), lo2 % Pow16>>
UnZigZag(hi, lo) ==
    LET w == hi * (Pow16 \div 2) + (lo \div 2)
    IN IF lo % 2 = 0 THEN w ELSE -w - 1

\* varint_encode_u32: the slices handed to the writer, one per write call
EncU32(h) ==
    IF h[1] = 0 /\ h[2] < 251 THEN << <<h[2]>> >>
    ELSE IF h[1] = 0 THEN << <<251>>, U16LE(h[2]) >>
    ELSE << <<252>>, U16LE(h[2]) \o U16LE(h[1]) >>
EncI32(v) == EncU32(ZigZag(v))
\* varint_encode_usize, for the values below 2^31 the model draws
EncUsize(n) == EncU32(<<n \div Pow16, n % Pow16>>)
EncOptUsize(o) == IF o = None THEN << <<0>> >> ELSE << <<1>> >> \o EncUsize(Unwrap(o))

RECURSIVE EncI32s(_)
EncI32s(vs) == IF vs = <<>> THEN <<>> ELSE EncI32(Head(vs)) \o EncI32s(Tail(vs))
RECURSIVE EncUsizes(_)
EncUsizes(vs) ==
    IF vs = <<>> THEN <<>> ELSE EncUsize(Head(vs)) \o EncUsizes(Tail(vs))
\* [i32; 7] is written without a length
RECURSIVE EncRecords(_)
EncRecords(rs) ==
    IF rs = <<>> THEN <<>> ELSE EncI32s(Head(rs)) \o EncRecords(Tail(rs))

\* the derived Encode of Node: the variant index, then the fields in order
EncNode(node) ==
    EncU32(<<0, VariantIndex(node.kind)>>) \o
    (CASE node.kind = "Header" -> EncUsize(node.root)
       [] node.kind = "Leaf" ->
             EncUsize(Len(node.keys)) \o EncI32s(node.keys)
             \o EncUsize(Len(node.values)) \o EncRecords(node.values)
             \o EncOptUsize(node.next)
       [] node.kind = "Internal" ->
             EncUsize(Len(node.keys)) \o EncI32s(node.keys)
             \o EncUsize(Len(node.children)) \o EncUsizes(node.children))

\* A page is PAGE_SIZE bytes; the model keeps the bytes up to the last one
\* written by the encoder, the rest of the page is zero.
ByteAt(block, pos) == IF pos <= Len(block) THEN block[pos] ELSE 0

\* encode_into_slice: each write either fits in what is left of the slice
\* or fails, and the first failure ends the encoding.  WritesLen is the
\* number of bytes of writes[lo..hi], FitCount the number of leading writes
\* of writes[lo..hi] that fit in room bytes, Flat their concatenation.
RECURSIVE WritesLen(_, _, _)
WritesLen(writes, lo, hi) ==
    IF lo > hi THEN 0
    ELSE IF lo = hi THEN Len(writes[lo])
    ELSE LET mid == (lo + hi) \div 2
         IN WritesLen(writes, lo, mid) + WritesLen(writes, mid + 1, hi)
RECURSIVE FitCount(_, _, _, _)
FitCount(writes, lo, hi, room) ==
    IF lo > hi THEN 0
    ELSE IF lo = hi THEN (IF Len(writes[lo]) <= room THEN 1 ELSE 0)
    ELSE LET mid == (lo + hi) \div 2
             left == WritesLen(writes, lo, mid)
         IN IF left <= room
            THEN (mid - lo + 1) + FitCount(writes, mid + 1, hi, room - left)
            ELSE FitCount(writes, lo, mid, room)
RECURSIVE Flat(_, _, _)
Flat(writes, lo, hi) ==
    IF lo > hi THEN <<>>
    ELSE IF lo = hi THEN writes[lo]
    ELSE LET mid == (lo + hi) \div 2
         IN Flat(writes, lo, mid) \o Flat(writes, mid + 1, hi)
FillSlice(writes) ==
    Flat(writes, 1, FitCount(writes, 1, Len(writes), FS_PAGE_SIZE))

\* FileStorage::serialize_node; the result of encode_into_slice is dropped
fs_serialize_node(input) == FillSlice(EncNode(input))

\* Decoding: a result is [ok, val, pos], pos the next byte to read (1-based)
DecFail == [ok |-> FALSE, val |-> 0, pos |-> 0]
DecOk(val, pos) == [ok |-> TRUE, val |-> val, pos |-> pos]
DecU16(block, pos) == ByteAt(block, pos) + 256 * ByteAt(block, pos + 1)

\* varint_decode_u32, the value as <<hi, lo>>
DecU32(block, pos) ==
    IF pos > FS_PAGE_SIZE THEN DecFail
    ELSE LET b == ByteAt(block, pos) IN
         IF b < 251 THEN DecOk(<<0, b>>, pos + 1)
         ELSE IF b = 251
         THEN IF pos + 2 > FS_PAGE_SIZE THEN DecFail
              ELSE DecOk(<<0, DecU16(block, pos + 1)>>, pos + 3)
         ELSE IF b = 252
         THEN IF pos + 4 > FS_PAGE_SIZE THEN DecFail
              ELSE DecOk(<<DecU16(block, pos + 3), DecU16(block, pos + 1)>>,
                         pos + 5)
         ELSE DecFail
DecI32(block, pos) ==
    LET r == DecU32(block, pos) IN
    IF r.ok THEN DecOk(UnZigZag(r.val[1], r.val[2]), r.pos) ELSE DecFail
\* varint_decode_usize, for values below 2^31
DecUsize(block, pos) ==
    LET r == DecU32(block, pos) IN
    IF r.ok /\ r.val[1] < Pow16 \div 2
    THEN DecOk(r.val[1] * Pow16 + r.val[2], r.pos) ELSE DecFail
DecOptUsize(block, pos) ==
    IF pos > FS_PAGE_SIZE THEN DecFail
    ELSE IF ByteAt(block, pos) = 0 THEN DecOk(None, pos + 1)
    ELSE IF ByteAt(block, pos) = 1
    THEN LET r == DecUsize(block, pos + 1) IN
         IF r.ok THEN DecOk(Some(r.val), r.pos) ELSE DecFail
    ELSE DecFail

\* n items read one after the other with the decoder of kind
\* "i32", "usize" or "record"
RECURSIVE DecItems(_, _, _, _, _)
DecOne(kind, block, pos) ==
    CASE kind = "i32" -> DecI32(block, pos)
      [] kind = "usize" -> DecUsize(block, pos)
      [] kind = "record" -> DecItems("i32", block, pos, 7, <<>>)
DecItems(kind, block, pos, n, acc) ==
    IF n = 0 THEN DecOk(acc, pos)
    ELSE LET r == DecOne(kind, block, pos) IN
         IF r.ok THEN DecItems(kind, block, r.pos, n - 1, Append(acc, r.val))
         ELSE DecFail
\* Vec<T>: the length, then the items
DecVec(kind, block, pos) ==
    LET n == DecUsize(block, pos) IN
    IF n.ok THEN DecItems(kind, block, n.pos, n.val, <<>>) ELSE DecFail

\* the derived Decode of Node
DecNode(block) ==
    LET tag == DecU32(block, 1) IN
    IF ~tag.ok \/ tag.val[1] # 0 THEN DecFail
    ELSE IF tag.val[2] = VariantIndex("Header")
    THEN LET root == DecUsize(block, tag.pos) IN
         IF root.ok THEN DecOk(HeaderNode(root.val), root.pos) ELSE DecFail
    ELSE IF tag.val[2] = VariantIndex("Leaf")
    THEN LET keys == DecVec("i32", block, tag.pos)
             values == DecVec("record", block, keys.pos)
             next == DecOptUsize(block, values.pos)
         IN IF keys.ok /\ values.ok /\ next.ok
            THEN DecOk(LeafNode(keys.val, values.val, next.val), next.pos)
            ELSE DecFail
    ELSE IF tag.val[2] = VariantIndex("Internal")
    THEN LET keys == DecVec("i32", block, tag.pos)
             children == DecVec("usize", block, keys.pos)
         IN IF keys.ok /\ children.ok
            THEN DecOk(InternalNode(keys.val, children.val), children.pos)
            ELSE DecFail
    ELSE DecFail

\* FileStorage::deserialize_node
fs_deserialize_node(input) ==
    LET result == DecNode(input) IN
    IF result.ok THEN Some(result.val) ELSE None

\* read_node with page_reads += 1 moved before read_exact: a read past the
\* end of the file is counted too
fs_read_node_CountFirst(st, loc) ==
    IF loc >= Len(st.pages)
    THEN [store |-> [st EXCEPT !.page_reads = @ + 1], node |-> None]
    ELSE [store |-> [st EXCEPT !.page_reads = @ + 1],
          node |-> fs_deserialize_node(st.pages[loc + 1])]

\* read_node without the page_reads += 1 after read_exact
fs_read_node_NeverCounts(st, loc) ==
    IF loc >= Len(st.pages) THEN [store |-> st, node |-> None]
    ELSE [store |-> st, node |-> fs_deserialize_node(st.pages[loc + 1])]

\* FileStorage::read_node: the store afterwards and the returned value.
\* read_exact fails when the file ends before the page does.
fs_read_node(st, loc) ==
    IF loc >= Len(st.pages) THEN [store |-> st, node |-> None]
    ELSE [store |-> [st EXCEPT !.page_reads = @ + 1],
          node |-> fs_deserialize_node(st.pages[loc + 1])]

\* write_node that seeks to the end of the file instead of loc * PAGE_SIZE
\* when loc is past the end: the page is appended and no hole is left
fs_write_node_NoHole(st, loc, input) ==
    LET block == fs_serialize_node(input)
        pages == IF loc < Len(st.pages)
                 THEN [st.pages EXCEPT ![loc + 1] = block]
                 ELSE Append(st.pages, block)
    IN [st EXCEPT !.pages = pages, !.page_writes = @ + 1]

\* FileStorage::write_node; writing past the end leaves a hole of zero bytes
fs_write_node(st, loc, input) ==
    LET block == fs_serialize_node(input)
        pages == IF loc < Len(st.pages)
                 THEN [st.pages EXCEPT ![loc + 1] = block]
                 ELSE st.pages \o [i \in 1..(loc - Len(st.pages)) |-> <<>>]
                        \o <<block>>
    IN [st EXCEPT !.pages = pages, !.page_writes = @ + 1]

\* FileStorage::total_nodes
fs_total_nodes(st) == Len(st.pages)

\* The nodes SpecStore writes: sample_leaf and sample_internal of the tests
\* of file_storage.rs, a leaf with the extreme keys, and an empty leaf.
Rec(v) == [i \in 1..7 |-> v]
sample_leaf == LeafNode(<<1, 2, 3>>, <<Rec(1), Rec(2), Rec(3)>>, Some(42))
sample_internal == InternalNode(<<10, 20>>, <<1, 2, 3>>)
edge_leaf ==
    LeafNode(<<I32_MIN, -1, I32_MAX>>,
             <<Rec(I32_MIN), Rec(-300), Rec(I32_MAX)>>, Some(Pow16))
empty_leaf == LeafNode(<<>>, <<>>, None)
StoreNodes == {sample_leaf, sample_internal, edge_leaf, empty_leaf}

\* a leaf of BigLen entries of the largest encodings, more than one page
big_leaf ==
    LeafNode([i \in 1..BigLen |-> I32_MAX], [i \in 1..BigLen |-> Rec(I32_MIN)],
             Some(7))

\* What the last call on the stores was: the page index, the node written
\* at that index before, the size and the counters of the file before the
\* call, and what read_node returned from each store.
StoreOp(op, loc, ret_fs, ret_mem) ==
    [op |-> op, loc |-> loc, ret_fs |-> ret_fs, ret_mem |-> ret_mem,
     prev |-> IF loc <= MaxLoc THEN written[loc] ELSE None,
     total_before |-> fs_total_nodes(fs),
     reads_before |-> fs.page_reads, writes_before |-> fs.page_writes]

\* Storage::write_node on both stores
StWrite(loc, node) ==
    /\ fs.page_reads + fs.page_writes < MaxOps
    /\ fs' = fs_write_node(fs, loc, node)
    /\ mem' = ims_write_node(mem, loc, node)
    /\ written' = [written EXCEPT ![loc] = Some(node)]
    /\ last' = StoreOp("write", loc, None, None)
    /\ UNCHANGED <<tree_vars, bt_vars, nst_vars>>

\* Storage::read_node on both stores
StRead(loc) ==
    /\ fs.page_reads + fs.page_writes < MaxOps
    /\ fs' = fs_read_node(fs, loc).store
    /\ last' = StoreOp("read", loc, fs_read_node(fs, loc).node,
                       ims_read_node(mem, loc))
    /\ UNCHANGED <<mem, written>>
    /\ UNCHANGED <<tree_vars, bt_vars, nst_vars>>

StoreNext ==
    \/ \E loc \in 0..MaxLoc, node \in StoreNodes : StWrite(loc, node)
    \/ \E loc \in 0..(MaxLoc + 1) : StRead(loc)

SpecStore == Init /\ [][StoreNext]_vars

----------------------------------------------------------------------------
\* Reading the stored tree.
PagesOf(ns) == 0..(Len(ns) - 1)
HasKind(ns, loc, kind) ==
    /\ IsSome(read_node(ns, loc))
    /\ Unwrap(read_node(ns, loc)).kind = kind
NodeOf(ns, loc) == Unwrap(read_node(ns, loc))

StrictlyAscending(keys) ==
    \A i \in 1..(Len(keys) - 1) : KeyLt(keys[i], keys[i + 1])

ArityOK(n) ==
    IF n.kind = "Internal"
    THEN Len(n.children) = Len(n.keys) + 1 /\ Len(n.keys) <= MAX_KEYS
    ELSE Len(n.keys) = Len(n.values) /\ Len(n.keys) <= MAX_KEYS

SeqSet(s) == {s[i] : i \in 1..Len(s)}

\* every key held by a node in the subtree under page loc (fuel bounds the
\* depth, so that the operator is defined on any page graph)
RECURSIVE SubtreeKeys(_, _, _)
SubtreeKeys(ns, loc, fuel) ==
    IF fuel = 0 \/ read_node(ns, loc) = None THEN {}
    ELSE LET n == NodeOf(ns, loc) IN
         IF n.kind = "Internal"
         THEN SeqSet(n.keys) \cup
              UNION {SubtreeKeys(ns, n.children[i], fuel - 1) :
                         i \in 1..Len(n.children)}
         ELSE SeqSet(n.keys)

\* the pairs <<leaf page, depth>> under page loc, the root being at depth d
RECURSIVE LeafDepths(_, _, _, _)
LeafDepths(ns, loc, d, fuel) ==
    IF fuel = 0 \/ read_node(ns, loc) = None THEN {}
    ELSE LET n == NodeOf(ns, loc) IN
         IF n.kind = "Internal"
         THEN UNION {LeafDepths(ns, n.children[i], d + 1, fuel - 1) :
                         i \in 1..Len(n.children)}
         ELSE {<<loc, d>>}

TreeLeaves == {ld[1] : ld \in LeafDepths(nodes, root_loc, 0, Len(nodes))}
Depths == {ld[2] : ld \in LeafDepths(nodes, root_loc, 0, Len(nodes))}

\* the leaf the lookup rule reaches for a key
LookupLeaf(ns, root, key) == Descend(Tree(ns, root), key, root, <<>>).loc

RECURSIVE Leftmost(_, _, _)
Leftmost(ns, loc, fuel) ==
    IF fuel > 0 /\ HasKind(ns, loc, "Internal")
    THEN Leftmost(ns, NodeOf(ns, loc).children[1], fuel - 1)
    ELSE loc

\* the pages visited by following next from the leaf page in o
RECURSIVE ChainFrom(_, _, _)
ChainFrom(ns, o, fuel) ==
    IF o = None \/ fuel = 0 THEN <<>>
    ELSE IF ~HasKind(ns, Unwrap(o), "Leaf") THEN <<Unwrap(o)>>
    ELSE <<Unwrap(o)>> \o ChainFrom(ns, NodeOf(ns, Unwrap(o)).next, fuel - 1)

LeafChain ==
    ChainFrom(nodes, Some(Leftmost(nodes, root_loc, Len(nodes))),
              Len(nodes) + 1)

RECURSIVE ChainKeys(_, _)
ChainKeys(ns, chain) ==
    IF chain = <<>> THEN <<>>
    ELSE (IF HasKind(ns, Head(chain), "Leaf")
          THEN NodeOf(ns, Head(chain)).keys ELSE <<>>)
         \o ChainKeys(ns, Tail(chain))

Inserted == {k \in AllKeys : IsSome(model[k])}
Height == IF Depths = {} THEN 0 ELSE CHOOSE d \in Depths : \A e \in Depths : e <= d

----------------------------------------------------------------------------
\* C1: every find(k) on a tree built by inserts over an empty store returns
\* what the ordered map returns: the value of the last insert made with k,
\* and empty for a key never inserted.
C1_FindMatchesMap ==
    \A k \in AllKeys : find(nodes, root_loc, k) = model[k]

\* a find that returned a value, on a tree whose root leaf has split and
\* whose keys hold different values
C1_Witness ==
    /\ last.op = "find" /\ last.hit
    /\ HasKind(nodes, root_loc, "Internal")
    /\ \E k \in Keys : model[k] = Some(1)
    /\ \E k \in Keys : model[k] = Some(MaxVal)

\* C2: after any sequence of BTree inserts from an empty store, search(k)
\* returns the record most recently inserted with key k for every inserted
\* key, and None for every key never inserted.
C2_SearchFindsInserted ==
    \A k \in BTKeys : search(file, k) = bt_model[k]

\* C3: after every completed insert the keys of every stored node, leaf or
\* internal, are strictly ascending.
C3_KeysStrictlyAscending ==
    \A loc \in PagesOf(nodes) :
        IsSome(read_node(nodes, loc)) =>
            StrictlyAscending(NodeOf(nodes, loc).keys)

\* after an insert: a full leaf, and a non-root internal node with two keys
C3_Witness ==
    /\ last.op = "insert"
    /\ \E loc \in PagesOf(nodes) :
           HasKind(nodes, loc, "Leaf") /\ Len(NodeOf(nodes, loc).keys) = MAX_KEYS
    /\ \E loc \in PagesOf(nodes) :
           /\ loc # root_loc
           /\ HasKind(nodes, loc, "Internal")
           /\ Len(NodeOf(nodes, loc).keys) >= 2

\* C4: after every completed insert, and for every node read_node returns
\* during an insert, an Internal node has len(children) = len(keys) + 1 and at
\* most MAX_KEYS keys, and a Leaf has len(keys) = len(values) <= MAX_KEYS.
C4_Arity ==
    /\ \A loc \in PagesOf(nodes) :
           IsSome(read_node(nodes, loc)) => ArityOK(NodeOf(nodes, loc))
    /\ \A k \in DeepKeySet :
           LET t == insert(Tree(nodes, root_loc), k, 1) IN
           \A i \in 1..Len(t.reads) :
               IsSome(t.reads[i][2]) /\ ArityOK(Unwrap(t.reads[i][2]))

\* an internal node and a leaf that both hold exactly MAX_KEYS keys
C4_Witness ==
    /\ \E loc \in PagesOf(nodes) :
           HasKind(nodes, loc, "Internal")
               /\ Len(NodeOf(nodes, loc).keys) = MAX_KEYS
    /\ \E loc \in PagesOf(nodes) :
           HasKind(nodes, loc, "Leaf") /\ Len(NodeOf(nodes, loc).keys) = MAX_KEYS

\* C5: for every internal node with keys k_0..k_{m-1} and children c_0..c_m,
\* every key in the subtree of c_i is < k_i (i < m) and >= k_{i-1} (i > 0);
\* and the leaf the lookup rule reaches for a key is the leaf that holds it.
C5_Routing ==
    /\ \A loc \in PagesOf(nodes) :
           HasKind(nodes, loc, "Internal") =>
               LET n == NodeOf(nodes, loc) IN
               \A i \in 1..Len(n.children) :
                   \A k \in SubtreeKeys(nodes, n.children[i], Len(nodes)) :
                       /\ i <= Len(n.keys) => KeyLt(k, n.keys[i])
                       /\ i > 1 => KeyGe(k, n.keys[i - 1])
    /\ \A loc \in PagesOf(nodes) :
           HasKind(nodes, loc, "Leaf") =>
               \A k \in SeqSet(NodeOf(nodes, loc).keys) :
                   LookupLeaf(nodes, root_loc, k) = loc

\* a tree of height 2 in which a leaf has split below a non-root parent
C5_Witness ==
    /\ Height = 2
    /\ \E loc \in PagesOf(nodes) :
           /\ loc # root_loc
           /\ HasKind(nodes, loc, "Internal")
           /\ Len(NodeOf(nodes, loc).keys) = 3

\* C6: after every completed insert all leaves are at the same depth below
\* the root.
C6_LeavesSameDepth == Cardinality(Depths) = 1

\* an internal split has grown the tree: the leaves are two levels down
C6_Witness == last.op = "insert" /\ Depths = {2}

\* C7: following next from the leftmost leaf until it is empty visits every
\* leaf of the tree exactly once and yields every inserted key exactly once,
\* in strictly ascending order.
C7_LeafChain ==
    LET chain == LeafChain
        keys == ChainKeys(nodes, chain)
    IN /\ \A i, j \in 1..Len(chain) : i # j => chain[i] # chain[j]
       /\ SeqSet(chain) = TreeLeaves
       /\ StrictlyAscending(keys)
       /\ SeqSet(keys) = Inserted

\* a chain of at least seven leaves below at least two internal nodes
C7_Witness == Len(LeafChain) >= 7 /\ Height = 2

\* C8: inserting a (key, value) whose key is already in the tree allocates no
\* page, leaves the root and every node's keys, children and next link
\* unchanged, and changes no values slot but the one of that key.
C8_UpdateKeepsShape ==
    \A k \in Keys, v \in Vals :
        IsSome(find(nodes, root_loc, k)) =>
            LET t == insert(Tree(nodes, root_loc), k, v) IN
            /\ ~t.panic
            /\ Len(t.nodes) = Len(nodes)
            /\ t.root_loc = root_loc
            /\ \A loc \in PagesOf(nodes) :
                   LET old == NodeOf(nodes, loc)
                       new == NodeOf(t.nodes, loc)
                   IN /\ IsSome(read_node(t.nodes, loc))
                      /\ new.kind = old.kind
                      /\ new.keys = old.keys
                      /\ old.kind = "Internal" => new.children = old.children
                      /\ old.kind = "Leaf" =>
                             /\ new.next = old.next
                             /\ Len(new.values) = Len(old.values)
                             /\ \A j \in 1..Len(old.values) :
                                    IF old.keys[j] = k
                                    THEN new.values[j] = v
                                    ELSE new.values[j] = old.values[j]

\* an insert that found its key present, in a tree whose root leaf has split
C8_Witness ==
    /\ last.op = "insert" /\ last.existed
    /\ Cardinality(TreeLeaves) = 2

\* C9: insert(r) twice in a row leaves the page store and the root location
\* as insert(r) once leaves them.
C9_InsertIdempotent ==
    \A k \in Keys, v \in Vals :
        LET once == insert(Tree(nodes, root_loc), k, v)
            twice == insert(Tree(once.nodes, once.root_loc), k, v)
        IN /\ ~twice.panic
           /\ twice.nodes = once.nodes
           /\ twice.root_loc = once.root_loc

\* an insert that found its key present, while the root leaf is full, so
\* that one further key splits it
C9_Witness ==
    /\ last.op = "insert" /\ last.existed
    /\ HasKind(nodes, root_loc, "Leaf")
    /\ Len(NodeOf(nodes, root_loc).keys) = MAX_KEYS
    /\ \E k \in Keys : model[k] = None

\* C10: page 0 holds a Header whose root_page is the page index of the
\* current root.
C10_HeaderNamesRoot ==
    /\ IsSome(read_node(nodes, 0))
    /\ NodeOf(nodes, 0).kind = "Header"
    /\ NodeOf(nodes, 0).root_page = root_loc

\* C11: calling open on a store that already holds a tree built by earlier
\* inserts modifies no page of that store, and afterwards find(k) returns,
\* for every key k, the same result it returned before the re-open.
C11_ReopenKeepsTree ==
    LET reopened == open(nodes) IN
    /\ reopened.nodes = nodes
    /\ \A k \in Keys :
          find(reopened.nodes, reopened.root_loc, k) = find(nodes, root_loc, k)

\* C12: after any sequence of write_node calls, read_node(i) returns exactly
\* the node most recently written at index i, for every index i that has
\* been written, on the FileStorage and on the InMemoryStorage.
C12_ReadReturnsLastWrite ==
    \A i \in 0..MaxLoc :
        IsSome(written[i]) =>
            /\ fs_read_node(fs, i).node = written[i]
            /\ ims_read_node(mem, i) = written[i]

\* a page beyond a hole written twice, the second time with the leaf of
\* extreme keys over a different node
C12_Witness ==
    /\ last.op = "write"
    /\ last.loc > 0
    /\ IsSome(last.prev)
    /\ last.prev # written[last.loc]
    /\ written[last.loc] = Some(edge_leaf)

\* C13: write_node(p, n) leaves the value returned by read_node(q) unchanged
\* for every page index q # p that had been written before, also when p
\* lies beyond the current end of the store.
C13_WriteLeavesOtherPages ==
    LET before == [q \in 0..MaxLoc |-> fs_read_node(fs, q).node] IN
    \A p \in 0..(MaxLoc + 1), n \in StoreNodes :
        LET after_fs == fs_write_node(fs, p, n)
            after_mem == ims_write_node(mem, p, n)
        IN \A q \in 0..MaxLoc :
               (q # p /\ IsSome(written[q])) =>
                   /\ fs_read_node(after_fs, q).node = before[q]
                   /\ ims_read_node(after_mem, q) = ims_read_node(mem, q)

\* the last call wrote beyond the end of the store, leaving a hole, while
\* a page below it had been written before
C13_Witness ==
    /\ last.op = "write"
    /\ last.loc > last.total_before
    /\ \E q \in 0..MaxLoc : q < last.loc /\ IsSome(written[q])

\* C14: read_node(i) returns empty for every page index i that has never
\* been written, both for indices at or beyond total_nodes() and for
\* intermediate indices skipped by a write at a higher index, on both stores.
C14_UnwrittenReadsEmpty ==
    \A i \in 0..(MaxLoc + 1) :
        (i > MaxLoc \/ written[i] = None) =>
            /\ fs_read_node(fs, i).node = None
            /\ ims_read_node(mem, i) = None

\* C15: after any sequence of write_node calls, total_nodes() equals 1 + the
\* highest page index ever written (0 when nothing has been written), and
\* no write_node makes it smaller.
C15_TotalNodes ==
    LET idx == {i \in 0..MaxLoc : IsSome(written[i])}
        expected == IF idx = {} THEN 0
                    ELSE 1 + CHOOSE i \in idx : \A j \in idx : j <= i
    IN /\ fs_total_nodes(fs) = expected
       /\ ims_total_nodes(mem) = expected
       /\ \A p \in 0..(MaxLoc + 1), n \in StoreNodes :
             /\ fs_total_nodes(fs_write_node(fs, p, n)) >= fs_total_nodes(fs)
             /\ ims_total_nodes(ims_write_node(mem, p, n))
                    >= ims_total_nodes(mem)

\* a write beyond the end that skipped pages, followed by a write below the
\* highest written index
C15_Witness ==
    /\ last.op = "write"
    /\ last.loc + 1 < last.total_before
    /\ \E h \in 0..MaxLoc : h < fs_total_nodes(fs) /\ written[h] = None
    /\ fs_total_nodes(fs) = MaxLoc + 1

\* C16 as stated: every call to read_node increments the read counter by
\* exactly one, whether or not it returns a node, and every call to
\* write_node increments the write counter by exactly one.
C16_EveryReadCounts ==
    /\ \A loc \in 0..(MaxLoc + 1) :
          fs_read_node(fs, loc).store.page_reads = fs.page_reads + 1
    /\ \A loc \in 0..(MaxLoc + 1), n \in StoreNodes :
          fs_write_node(fs, loc, n).page_writes = fs.page_writes + 1

\* C16 as amended: a read_node of a page index below total_nodes()
\* increments the read counter by exactly one, a read_node at or beyond
\* total_nodes() returns empty and leaves the read counter unchanged, and
\* every write_node increments the write counter by exactly one; neither
\* call changes the other counter.
C16_ReadsOfFilePagesCount ==
    /\ \A loc \in 0..(MaxLoc + 1) :
          LET r == fs_read_node(fs, loc) IN
          /\ r.store.page_writes = fs.page_writes
          /\ IF loc < fs_total_nodes(fs)
             THEN r.store.page_reads = fs.page_reads + 1
             ELSE r.store.page_reads = fs.page_reads /\ r.node = None
    /\ \A loc \in 0..(MaxLoc + 1), n \in StoreNodes :
          LET w == fs_write_node(fs, loc, n) IN
          /\ w.page_writes = fs.page_writes + 1
          /\ w.page_reads = fs.page_reads

\* a read_node beyond the end of a file that holds pages returned empty and
\* left the counter as it was
C16_Witness ==
    /\ last.op = "read"
    /\ last.total_before > 0
    /\ last.loc >= last.total_before
    /\ last.ret_fs = None
    /\ fs.page_reads = last.reads_before
    /\ fs.page_writes = 1

\* C17: write_node of a node whose encoding exceeds PAGE bytes is refused
\* and never stores a truncated, partial or empty page: the size of the
\* store and the content of the target page stay as they were.
C17_OversizeWriteRefused ==
    \A loc \in 0..MaxLoc :
        IsSome(written[loc]) =>
            LET st == fs_write_node(fs, loc, big_leaf) IN
            /\ fs_total_nodes(st) = fs_total_nodes(fs)
            /\ fs_read_node(st, loc).node = fs_read_node(fs, loc).node

\* C18: append_node on a store holding n pages writes the node at index n
\* and returns n, increases num_nodes() and page_writes by exactly one each
\* and leaves pages 0..n-1 unchanged, so that after k appends read_node(i)
\* returns the i-th appended node for every i < k.
C18_AppendNode ==
    /\ \A node \in NsNodes :
          LET n == ns_num_nodes(nst.file)
              r == nst_append_node(nst, node)
          IN /\ r.index = n
             /\ ns_num_nodes(r.store.file) = n + 1
             /\ r.store.page_writes = nst.page_writes + 1
             /\ r.store.page_reads = nst.page_reads
             /\ nst_read_node(r.store, n).node = node
             /\ \A i \in 0..(n - 1) :
                   nst_read_node(r.store, i).node = nst_read_node(nst, i).node
    /\ ns_num_nodes(nst.file) = Len(appended)
    /\ \A i \in 0..(Len(appended) - 1) :
          nst_read_node(nst, i).node = appended[i + 1]

\* three appends of different nodes, the last one returning index 2, after
\* a read_node in between
C18_Witness ==
    /\ last.op = "append"
    /\ last.index = 2
    /\ Len(appended) = 3
    /\ appended[1] # appended[2]
    /\ appended[2] # appended[3]
    /\ nst.page_writes = 3
    /\ nst.page_reads = 1

\* C19: find changes nothing at the logical level: after find(k), for any k
\* and any reachable state, every page of the store holds the same node as
\* before and the root location is unchanged.
C19_FindChangesNothing ==
    [][last'.op = "find" => (nodes' = nodes /\ root_loc' = root_loc)]_vars

\* a find that descended from an Internal root to a leaf and returned a
\* value
C19_Witness ==
    /\ last.op = "find"
    /\ last.hit
    /\ HasKind(nodes, root_loc, "Internal")
    /\ total_nodes(nodes) >= 3

\* C20: when a leaf overflows with B + 1 keys (B = MAX_KEYS) and is split,
\* the left leaf keeps the first mid = ceil((B + 1) / 2) keys and the new
\* right leaf takes the remaining keys [mid, B + 1).
C20_LeafSplitCeil ==
    \A k \in Keys, v \in Vals :
        LET d == Descend(Tree(nodes, root_loc), k, root_loc, <<>>) IN
        (~d.t.panic /\ Len(LeafPut(Unwrap(d.node), k, v).keys) = MAX_KEYS + 1)
        => LET leaf == LeafPut(Unwrap(d.node), k, v)
               t == insert(Tree(nodes, root_loc), k, v)
               mid == (MAX_KEYS + 2) \div 2
               left == NodeOf(t.nodes, d.loc)
               right == NodeOf(t.nodes, total_nodes(nodes))
           IN /\ left.keys = SliceTo(leaf.keys, mid)
              /\ right.keys = SliceFrom(leaf.keys, mid)

----------------------------------------------------------------------------
\* Reading one insert: the keys held by the internal nodes of a store, and
\* the internal nodes that hold a page as a child.
InternalKeys(ns) ==
    UNION {SeqSet(NodeOf(ns, loc).keys) :
               loc \in {l \in PagesOf(ns) : HasKind(ns, l, "Internal")}}
ParentSlots(ns, child) ==
    {<<loc, j>> \in PagesOf(ns) \X (1..(MAX_KEYS + 2)) :
         /\ HasKind(ns, loc, "Internal")
         /\ j <= Len(NodeOf(ns, loc).children)
         /\ NodeOf(ns, loc).children[j] = child}

\* C21: a leaf split copies up: the separator given to the parent is the
\* first key of the new right leaf and stays, with its value, in that leaf;
\* the original page becomes the left leaf, the right leaf is written to a
\* newly allocated page, the right leaf's next is the old next of the
\* original leaf and the left leaf's next is the new right page.
C21_LeafSplitCopiesUp ==
    \A k \in TallKeySet, v \in Vals :
        LET d == Descend(Tree(nodes, root_loc), k, root_loc, <<>>)
            leaf == LeafPut(Unwrap(d.node), k, v)
            t == insert(Tree(nodes, root_loc), k, v)
            new_loc == total_nodes(nodes)
        IN Len(leaf.keys) > MAX_KEYS =>
           /\ HasKind(t.nodes, d.loc, "Leaf")
           /\ HasKind(t.nodes, new_loc, "Leaf")
           /\ LET left == NodeOf(t.nodes, d.loc)
                  right == NodeOf(t.nodes, new_loc)
              IN /\ left.keys \o right.keys = leaf.keys
                 /\ left.values \o right.values = leaf.values
                 /\ Len(right.keys) = Len(right.values)
                 /\ right.keys # <<>>
                 /\ left.next = Some(new_loc)
                 /\ right.next = Unwrap(d.node).next
                 /\ right.keys[1] \notin InternalKeys(nodes)
                 /\ InternalKeys(t.nodes) =
                        InternalKeys(nodes) \cup {right.keys[1]}
                 /\ \A s \in ParentSlots(t.nodes, new_loc) :
                        s[2] > 1 =>
                            LET p == NodeOf(t.nodes, s[1]) IN
                            /\ p.keys[s[2] - 1] = right.keys[1]
                            /\ p.children[s[2] - 1] = d.loc

\* a leaf that is not the last of the chain has just split below an internal
\* node: its right half inherited a next link that is not empty
C21_Witness ==
    /\ last.op = "insert"
    /\ HasKind(nodes, root_loc, "Internal")
    /\ \E loc \in PagesOf(nodes) :
           /\ HasKind(nodes, loc, "Leaf")
           /\ NodeOf(nodes, loc).next = Some(total_nodes(nodes) - 1)
           /\ HasKind(nodes, total_nodes(nodes) - 1, "Leaf")
           /\ IsSome(NodeOf(nodes, total_nodes(nodes) - 1).next)

\* The parent of the target leaf of an insert, as the descent captured it,
\* and that parent once the separator and the page of a split leaf have been
\* added to it.
CapturedParent(d) == d.path[Len(d.path)]
GrownParent(d, sep, new_leaf_loc) ==
    LET parent == CapturedParent(d)[2]
        i == RouteIndex(parent.keys, sep)
    IN InternalNode(VecInsert(parent.keys, i, sep),
                    VecInsert(parent.children, i + 1, new_leaf_loc))

\* C22: an internal split pushes up: an internal node with MAX_KEYS + 1 keys
\* is split at mid = floor((MAX_KEYS + 1) / 2); the key at mid goes to the
\* parent and is in neither half; the left node keeps keys [0, mid) and the
\* first mid + 1 children, the right node gets keys (mid, MAX_KEYS + 1) and
\* the remaining children; no child pointer is lost or duplicated and both
\* halves have len(children) = len(keys) + 1.
C22_InternalSplitPushesUp ==
    \A k \in TallKeySet :
        LET d == Descend(Tree(nodes, root_loc), k, root_loc, <<>>)
            leaf == LeafPut(Unwrap(d.node), k, 1)
        IN (/\ Len(leaf.keys) > MAX_KEYS
            /\ d.path # <<>>
            /\ Len(CapturedParent(d)[2].keys) = MAX_KEYS)
           => LET t == insert(Tree(nodes, root_loc), k, 1)
                  new_leaf_loc == total_nodes(nodes)
                  new_internal_loc == new_leaf_loc + 1
                  loc == CapturedParent(d)[1]
                  sep == NodeOf(t.nodes, new_leaf_loc).keys[1]
                  internal == GrownParent(d, sep, new_leaf_loc)
                  mid == (MAX_KEYS + 1) \div 2
                  left == NodeOf(t.nodes, loc)
                  right == NodeOf(t.nodes, new_internal_loc)
              IN /\ HasKind(t.nodes, loc, "Internal")
                 /\ HasKind(t.nodes, new_internal_loc, "Internal")
                 /\ left.keys = SliceTo(internal.keys, mid)
                 /\ left.children = SliceTo(internal.children, mid + 1)
                 /\ right.keys = SliceFrom(internal.keys, mid + 1)
                 /\ right.children = SliceFrom(internal.children, mid + 1)
                 /\ internal.keys[mid + 1] \notin
                        SeqSet(left.keys) \cup SeqSet(right.keys)
                 /\ ParentSlots(t.nodes, new_internal_loc) # {}
                 /\ \A s \in ParentSlots(t.nodes, new_internal_loc) :
                        /\ s[2] > 1
                        /\ NodeOf(t.nodes, s[1]).keys[s[2] - 1]
                               = internal.keys[mid + 1]
                        /\ NodeOf(t.nodes, s[1]).children[s[2] - 1] = loc
                 /\ left.children \o right.children = internal.children
                 /\ Cardinality(SeqSet(left.children \o right.children))
                        = MAX_KEYS + 2
                 /\ Len(left.children) = Len(left.keys) + 1
                 /\ Len(right.children) = Len(right.keys) + 1

\* an internal node below the root has just split: the last page is an
\* internal node that is not the root, allocated right after a leaf
C22_Witness ==
    /\ last.op = "insert"
    /\ total_nodes(nodes) >= 2
    /\ HasKind(nodes, total_nodes(nodes) - 1, "Internal")
    /\ total_nodes(nodes) - 1 # root_loc
    /\ HasKind(nodes, total_nodes(nodes) - 2, "Leaf")
    /\ Len(NodeOf(nodes, root_loc).keys) = 2

\* the depth of the deepest leaf below a root
HeightOf(ns, root) ==
    LET ds == {ld[2] : ld \in LeafDepths(ns, root, 0, Len(ns))}
    IN IF ds = {} THEN 0 ELSE CHOOSE d \in ds : \A e \in ds : e <= d

\* C23: the height changes during an insert only when the root itself
\* splits, and then it grows by exactly one; the new root is an Internal node
\* on a newly allocated page with exactly one key, the promoted separator,
\* and exactly two children: the old root page on the left and the new
\* sibling page on the right.
C23_HeightGrowsAtRootSplit ==
    [][LET h == HeightOf(nodes, root_loc)
           h2 == HeightOf(nodes', root_loc')
           sibling == total_nodes(nodes') - 2
       IN /\ h2 # h => root_loc' # root_loc
          /\ root_loc' # root_loc =>
                /\ h2 = h + 1
                /\ sibling >= total_nodes(nodes)
                /\ root_loc' = sibling + 1
                /\ HasKind(nodes', root_loc', "Internal")
                /\ NodeOf(nodes', root_loc').children = <<root_loc, sibling>>
                /\ Len(NodeOf(nodes', root_loc').keys) = 1
                /\ NodeOf(nodes', root_loc).kind = NodeOf(nodes, root_loc).kind
                /\ NodeOf(nodes', sibling).kind = NodeOf(nodes, root_loc).kind
                /\ Len(NodeOf(nodes, root_loc).keys) = MAX_KEYS
                /\ Len(NodeOf(nodes', root_loc).keys) < MAX_KEYS
                /\ LET new_key == NodeOf(nodes', root_loc').keys[1]
                       left == NodeOf(nodes', root_loc)
                       right == NodeOf(nodes', sibling)
                   IN /\ \A j \in 1..Len(left.keys) : KeyLt(left.keys[j], new_key)
                      /\ IF right.kind = "Leaf"
                         THEN new_key = right.keys[1]
                         ELSE /\ \A j \in 1..Len(right.keys) :
                                     KeyLt(new_key, right.keys[j])
                              /\ new_key \in InternalKeys(nodes)
                                     \cup {NodeOf(nodes', sibling - 1).keys[1]}
      ]_vars

\* the root was an internal node and has just split: the tree is two levels
\* deep and the new root is the last page, after its new internal sibling
C23_Witness ==
    /\ last.op = "insert"
    /\ root_loc = total_nodes(nodes) - 1
    /\ root_loc >= 1
    /\ HasKind(nodes, root_loc - 1, "Internal")
    /\ HeightOf(nodes, root_loc) = 2

\* C24: an insert of a new key that leaves its target leaf with at most
\* MAX_KEYS keys writes exactly one page, the target leaf, with the new
\* (key, value) at its sorted position; it allocates no page and leaves the
\* root location and the content of every other page unchanged.
C24_PlainInsertWritesLeafOnly ==
    \A k \in TallKeySet, v \in Vals :
        LET d == Descend(Tree(nodes, root_loc), k, root_loc, <<>>)
            old == Unwrap(d.node)
        IN (find(nodes, root_loc, k) = None /\ Len(old.keys) < MAX_KEYS)
           => LET t == insert(Tree(nodes, root_loc), k, v)
                  new == NodeOf(t.nodes, d.loc)
              IN /\ ~t.panic
                 /\ t.writes = <<d.loc>>
                 /\ total_nodes(t.nodes) = total_nodes(nodes)
                 /\ t.root_loc = root_loc
                 /\ \A loc \in PagesOf(nodes) :
                        loc # d.loc =>
                            read_node(t.nodes, loc) = read_node(nodes, loc)
                 /\ HasKind(t.nodes, d.loc, "Leaf")
                 /\ new.next = old.next
                 /\ Len(new.keys) = Len(old.keys) + 1
                 /\ Len(new.values) = Len(new.keys)
                 /\ StrictlyAscending(new.keys)
                 /\ \E i \in 1..Len(new.keys) :
                        /\ new.keys[i] = k
                        /\ new.values[i] = v
                        /\ SubSeq(new.keys, 1, i - 1)
                               = SubSeq(old.keys, 1, i - 1)
                        /\ SubSeq(new.keys, i + 1, Len(new.keys))
                               = SubSeq(old.keys, i, Len(old.keys))
                        /\ SubSeq(new.values, 1, i - 1)
                               = SubSeq(old.values, 1, i - 1)
                        /\ SubSeq(new.values, i + 1, Len(new.values))
                               = SubSeq(old.values, i, Len(old.values))

\* a new key has just filled a leaf below an internal root to exactly
\* MAX_KEYS keys
C24_Witness ==
    /\ last.op = "insert" /\ ~last.existed
    /\ HasKind(nodes, root_loc, "Internal")
    /\ HeightOf(nodes, root_loc) = 1
    /\ \E loc \in PagesOf(nodes) :
           HasKind(nodes, loc, "Leaf") /\ Len(NodeOf(nodes, loc).keys) = MAX_KEYS

\* the pages from page loc down to the leaf the routing rule reaches for key
RECURSIVE PathTo(_, _, _, _)
PathTo(ns, loc, key, fuel) ==
    IF fuel = 0 \/ read_node(ns, loc) = None THEN <<>>
    ELSE IF NodeOf(ns, loc).kind = "Internal"
    THEN <<loc>> \o
         PathTo(ns,
                NodeOf(ns, loc).children[
                    RouteIndex(NodeOf(ns, loc).keys, key) + 1],
                key, fuel - 1)
    ELSE <<loc>>

\* C25: during one insert read_node is called exactly once for each node on
\* the root-to-leaf path of the key and for no other page, also when splits
\* propagate upward; the only pages written are pages of that path and pages
\* newly allocated by this insert.
C25_PathCapture ==
    \A k \in TallKeySet :
        LET t == insert(Tree(nodes, root_loc), k, 1)
            way == PathTo(nodes, root_loc, k, Len(nodes))
        IN /\ [i \in 1..Len(t.reads) |-> t.reads[i][1]] = way
           /\ \A i, j \in 1..Len(way) : i # j => way[i] # way[j]
           /\ \A i \in 1..Len(t.writes) :
                  \/ t.writes[i] \in SeqSet(way)
                  \/ /\ t.writes[i] >= total_nodes(nodes)
                     /\ t.writes[i] < total_nodes(t.nodes)

\* a split has just propagated from a leaf into an internal node below the
\* root and from there into the root
C25_Witness ==
    /\ last.op = "insert"
    /\ HeightOf(nodes, root_loc) = 2
    /\ total_nodes(nodes) - 1 # root_loc
    /\ HasKind(nodes, total_nodes(nodes) - 1, "Internal")
    /\ \E s \in ParentSlots(nodes, total_nodes(nodes) - 1) : s[1] = root_loc

\* the number of write_node calls among the first n of an insert that went
\* to a page index at or above base
RECURSIVE AllocatedBefore(_, _, _)
AllocatedBefore(writes, n, base) ==
    IF n = 0 THEN 0
    ELSE AllocatedBefore(writes, n - 1, base)
             + (IF writes[n] >= base THEN 1 ELSE 0)

\* C26: every page allocated by a split or a root growth receives the index
\* total_nodes() had at the moment of allocation: page indices are handed
\* out as 0, 1, 2, ... without gaps, no allocation overwrites a page already
\* in use, no page is ever freed or moved to another index, and
\* total_nodes() never decreases.
C26_SequentialAllocation ==
    /\ \A loc \in PagesOf(nodes) : IsSome(read_node(nodes, loc))
    /\ \A k \in TallKeySet :
           LET t == insert(Tree(nodes, root_loc), k, 1)
               base == total_nodes(nodes)
           IN /\ total_nodes(t.nodes) >= base
              /\ \A i \in 1..Len(t.writes) :
                     t.writes[i] >= base =>
                         t.writes[i] = base
                             + AllocatedBefore(t.writes, i - 1, base)
              /\ total_nodes(t.nodes)
                     = base + AllocatedBefore(t.writes, Len(t.writes), base)
              /\ \A loc \in PagesOf(nodes) :
                     /\ IsSome(read_node(t.nodes, loc))
                     /\ NodeOf(t.nodes, loc).kind = NodeOf(nodes, loc).kind

\* one insert has just allocated three pages in a row: a leaf, an internal
\* node and a new root
C26_Witness ==
    /\ last.op = "insert"
    /\ total_nodes(nodes) >= 3
    /\ root_loc = total_nodes(nodes) - 1
    /\ HasKind(nodes, total_nodes(nodes) - 2, "Internal")
    /\ HasKind(nodes, total_nodes(nodes) - 3, "Leaf")
    /\ \A loc \in PagesOf(nodes) : IsSome(read_node(nodes, loc))

\* keys and children are those of the internal node before with one key
\* added at its sorted position i and new_child added at children[i + 1],
\* right after child, which is children[i] (i is 0-based)
Absorbed(before, keys, children, child, new_child) ==
    \E i \in 0..Len(before.keys) :
        /\ keys = VecInsert(before.keys, i, keys[i + 1])
        /\ StrictlyAscending(keys)
        /\ children = VecInsert(before.children, i + 1, new_child)
        /\ children[i + 1] = child
        /\ children[i + 2] = new_child

\* C27: after a child split the promoted key is inserted into the parent at
\* its sorted position i and the new right page at children[i + 1],
\* immediately to the right of the split child, which stays at children[i];
\* a parent that then has more than MAX_KEYS keys is split using the rest of
\* the captured path.
C27_Propagation ==
    \A k \in TallKeySet :
        LET d == Descend(Tree(nodes, root_loc), k, root_loc, <<>>)
            leaf == LeafPut(Unwrap(d.node), k, 1)
        IN (Len(leaf.keys) > MAX_KEYS /\ d.path # <<>>)
           => LET t == insert(Tree(nodes, root_loc), k, 1)
                  new_leaf_loc == total_nodes(nodes)
                  sep == NodeOf(t.nodes, new_leaf_loc).keys[1]
                  parent_loc == CapturedParent(d)[1]
                  parent == CapturedParent(d)[2]
                  stored == NodeOf(t.nodes, parent_loc)
                  rest == SubSeq(d.path, 1, Len(d.path) - 1)
              IN IF Len(parent.keys) < MAX_KEYS
                 THEN /\ Absorbed(parent, stored.keys, stored.children,
                                  d.loc, new_leaf_loc)
                      /\ sep \in SeqSet(stored.keys) \ SeqSet(parent.keys)
                      /\ t.writes = <<d.loc, d.loc, new_leaf_loc, parent_loc>>
                      /\ t.root_loc = root_loc
                 ELSE LET new_internal_loc == new_leaf_loc + 1
                          right == NodeOf(t.nodes, new_internal_loc)
                          above_loc == IF rest = <<>> THEN t.root_loc
                                       ELSE rest[Len(rest)][1]
                          above == NodeOf(t.nodes, above_loc)
                          up == CHOOSE m \in SeqSet(above.keys) :
                                    rest # <<>> =>
                                        m \notin SeqSet(rest[Len(rest)][2].keys)
                      IN /\ Absorbed(parent,
                                     stored.keys \o <<up>> \o right.keys,
                                     stored.children \o right.children,
                                     d.loc, new_leaf_loc)
                         /\ sep \in (SeqSet(stored.keys) \cup {up}
                                       \cup SeqSet(right.keys))
                                    \ SeqSet(parent.keys)
                         /\ IF rest = <<>>
                            THEN /\ t.root_loc = new_internal_loc + 1
                                 /\ above.children
                                        = <<parent_loc, new_internal_loc>>
                            ELSE /\ t.root_loc = root_loc
                                 /\ Absorbed(rest[Len(rest)][2], above.keys,
                                             above.children, parent_loc,
                                             new_internal_loc)

\* a leaf split has just been absorbed by an internal node below the root,
\* which is now full
C27_Witness ==
    /\ last.op = "insert"
    /\ total_nodes(nodes) >= 1
    /\ HasKind(nodes, total_nodes(nodes) - 1, "Leaf")
    /\ \E s \in ParentSlots(nodes, total_nodes(nodes) - 1) :
           /\ s[1] # root_loc
           /\ s[2] > 1
           /\ Len(NodeOf(nodes, s[1]).keys) = MAX_KEYS

\* the records of a set in ascending key order (the keys are distinct)
RECURSIVE AscendingRecords(_)
AscendingRecords(S) ==
    IF S = {} THEN <<>>
    ELSE LET m == CHOOSE r \in S : \A q \in S : r.key <= q.key
         IN <<m>> \o AscendingRecords(S \ {m})

\* the records a node holds, in slot order
NodeRecords(node) == SomeKeys(node.keys)

\* C28: redistribute, given a left leaf, a right leaf and their parent, with
\* n = |left keys| + 1 + |right keys| + 1: the first floor(n / 2) records of
\* the sorted union (left records, the parent separator between the two
\* leaves, right records, the new record) go to the left leaf, the next
\* record goes to the parent key slot whose left child is the left leaf, and
\* the remaining records go to the right leaf; no record is lost or
\* duplicated, no other parent key changes, and neither leaf ends with more
\* than MAX_KEYS keys.
C28_Redistribute ==
    \A k \in CompNewKeys :
        LET input == Record(k, 2)
            r == bt_find(file, k)
        IN (/\ r.kind = "NotFound"
            /\ try_insert_without_split(r.node[1], input) = None
            /\ IsSome(try_compensate(file, r.node, r.parent, input)))
           => LET out == Unwrap(try_compensate(file, r.node, r.parent, input))
                  left_page == out[1][2]
                  right_page == out[3][2]
                  left == ns_read_node(file, left_page)
                  right == ns_read_node(file, right_page)
                  parent == Unwrap(r.parent)[1]
                  slot == CHOOSE p \in 1..BT_MAX_KEYS :
                              parent.children[p] = Some(left_page)
                  union == AscendingRecords(
                               SeqSet(NodeRecords(left))
                                   \cup {Unwrap(parent.keys[slot])}
                                   \cup SeqSet(NodeRecords(right))
                                   \cup {input})
                  n == left.num_keys + 1 + right.num_keys + 1
              IN /\ Len(out) = 3
                 /\ out[2][2] = Unwrap(r.parent)[2]
                 /\ parent.children[slot + 1] = Some(right_page)
                 /\ Len(union) = n
                 /\ NodeRecords(out[1][1]) = SubSeq(union, 1, n \div 2)
                 /\ out[2][1].keys[slot] = Some(union[n \div 2 + 1])
                 /\ NodeRecords(out[3][1]) = SubSeq(union, n \div 2 + 2, n)
                 /\ \A j \in 1..BT_MAX_KEYS :
                        j # slot => out[2][1].keys[j] = parent.keys[j]
                 /\ out[2][1].children = parent.children
                 /\ out[2][1].num_keys = parent.num_keys
                 /\ out[1][1].num_keys = Len(NodeRecords(out[1][1]))
                 /\ out[3][1].num_keys = Len(NodeRecords(out[3][1]))
                 /\ out[1][1].num_keys <= BT_MAX_KEYS
                 /\ out[3][1].num_keys <= BT_MAX_KEYS
                 /\ out[1][1].is_leaf /\ out[3][1].is_leaf

\* an insert has just been resolved by redistributing over the second and
\* third leaf: the file still has its four pages and the second key of the
\* root is no longer 300
C28_Witness ==
    /\ last.op = "insert"
    /\ ns_num_nodes(file) = 4
    /\ ~ns_read_node(file, 0).is_leaf
    /\ Unwrap(ns_read_node(file, 0).keys[2]).key # 300

\* the internal pages of a file that list page as a child, and the 0-based
\* position of page among the children of such a parent
StoredParents(f, page) ==
    {pp \in 0..(ns_num_nodes(f) - 1) :
         /\ ~ns_read_node(f, pp).is_leaf
         /\ \E j \in 1..(ns_read_node(f, pp).num_keys + 1) :
                ns_read_node(f, pp).children[j] = Some(page)}
ChildPosition(par, page) ==
    (CHOOSE j \in 1..(par.num_keys + 1) : par.children[j] = Some(page)) - 1

\* the page at 0-based position p of the children of par is a leaf with room
SiblingWithRoom(f, par, p) ==
    /\ p >= 0 /\ p <= par.num_keys
    /\ IsSome(par.children[p + 1])
    /\ ns_read_node(f, Unwrap(par.children[p + 1])).is_leaf
    /\ ns_read_node(f, Unwrap(par.children[p + 1])).num_keys < BT_MAX_KEYS

\* the pages that differ between two files, and the pages added
ChangedPages(f, g) ==
    {pg \in 0..(ns_num_nodes(g) - 1) :
         pg >= ns_num_nodes(f) \/ g[pg + 1] # f[pg + 1]}

\* what C29 says of the inserts of the keys of a set into the file
CompensationPolicy(keys) ==
    \A k \in keys :
        LET input == Record(k, 1)
            r == bt_find(file, k)
        IN (r.kind = "NotFound" /\ r.node[1].num_keys >= BT_MAX_KEYS)
           => LET page == r.node[2]
                  after == bt_insert(file, input)
                  changed == ChangedPages(file, after)
                  grown == ns_num_nodes(after) > ns_num_nodes(file)
              IN IF StoredParents(file, page) = {}
                 THEN grown
                 ELSE LET pp == CHOOSE q \in StoredParents(file, page) : TRUE
                          par == ns_read_node(file, pp)
                          p == ChildPosition(par, page)
                          sib == IF SiblingWithRoom(file, par, p - 1)
                                 THEN par.children[p]
                                 ELSE IF SiblingWithRoom(file, par, p + 1)
                                 THEN par.children[p + 2]
                                 ELSE None
                      IN IF sib = None
                         THEN grown
                         ELSE /\ ~grown
                              /\ Unwrap(sib) \in changed
                              /\ changed \subseteq {page, Unwrap(sib), pp}
                              /\ ns_read_node(after, pp).children
                                     = par.children

\* C29: BTree::insert on a full target leaf tries compensation before any
\* split: not when the leaf has no parent; with the left sibling when it
\* exists and is a leaf with fewer than MAX_KEYS keys, otherwise with the
\* right sibling under the same condition, otherwise the insert falls through
\* to split; an insert resolved by compensation allocates no page, writes
\* only the two sibling leaves and the parent, and leaves the height
\* unchanged.
C29_CompensationBeforeSplit == CompensationPolicy(BTKeys)

\* C30: every find and every insert terminates: the descent reads at most
\* height + 1 pages, and split propagation performs at most one split per
\* level of the captured path, ending either by writing a parent that holds
\* at most MAX_KEYS keys or by creating a new root.
C30_BoundedWork ==
    LET h == HeightOf(nodes, root_loc) IN
    \A k \in TallKeySet :
        LET way == PathTo(nodes, root_loc, k, total_nodes(nodes) + 1)
            d == Descend(Tree(nodes, root_loc), k, root_loc, <<>>)
            t == insert(Tree(nodes, root_loc), k, 1)
            grown == IF t.root_loc # root_loc THEN 1 ELSE 0
            splits == total_nodes(t.nodes) - total_nodes(nodes) - grown
            final == t.writes[Len(t.writes)]
        IN /\ Len(way) <= h + 1
           /\ HasKind(nodes, way[Len(way)], "Leaf")
           /\ find(nodes, root_loc, k) \in {None} \cup {Some(v) : v \in Vals}
           /\ ~t.panic
           /\ Len(t.reads) <= h + 1
           /\ Len(d.path) = h
           /\ splits <= Len(d.path) + 1
           /\ Len(t.writes) = 1 + 3 * splits
           /\ IF splits = 0 THEN final = d.loc
              ELSE IF grown = 1
              THEN /\ final = t.root_loc
                   /\ splits = Len(d.path) + 1
              ELSE /\ final = d.path[Len(d.path) - splits + 1][1]
                   /\ Len(NodeOf(t.nodes, final).keys) <= MAX_KEYS

\* every key has been inserted and the tree is two levels deep: every insert
\* of the run has returned, those that split two levels included
C30_Witness ==
    /\ last.op = "insert"
    /\ \A k \in TallKeySet : IsSome(model[k])
    /\ HeightOf(nodes, root_loc) = 2
    /\ Len(NodeOf(nodes, root_loc).keys) >= 2

\* the keys held by the leaves of the subtree under page loc
RECURSIVE SubtreeLeafKeys(_, _, _)
SubtreeLeafKeys(ns, loc, fuel) ==
    IF fuel = 0 \/ read_node(ns, loc) = None THEN {}
    ELSE LET n == NodeOf(ns, loc) IN
         IF n.kind = "Internal"
         THEN UNION {SubtreeLeafKeys(ns, n.children[i], fuel - 1) :
                         i \in 1..Len(n.children)}
         ELSE SeqSet(n.keys)

\* C31: each key k_i of an internal node equals the smallest key stored in
\* the subtree of the child to its right, c_{i+1}; hence every key of an
\* internal node also occurs as a key of some leaf.
C31_SeparatorIsSubtreeMin ==
    /\ \A loc \in PagesOf(nodes) :
           HasKind(nodes, loc, "Internal") =>
               LET n == NodeOf(nodes, loc) IN
               \A i \in 1..Len(n.keys) :
                   LET under == SubtreeLeafKeys(nodes, n.children[i + 1],
                                                Len(nodes))
                   IN /\ n.keys[i] \in under
                      /\ \A k \in under : KeyGe(k, n.keys[i])
    /\ InternalKeys(nodes) \subseteq
           SubtreeLeafKeys(nodes, root_loc, Len(nodes))

\* a tree of height 2 whose root key was pushed up by an internal split, and
\* an internal node below the root that holds MAX_KEYS keys
C31_Witness ==
    /\ HeightOf(nodes, root_loc) = 2
    /\ Len(NodeOf(nodes, root_loc).keys) >= 1
    /\ NodeOf(nodes, root_loc).keys[1]
           \in SubtreeLeafKeys(nodes, root_loc, Len(nodes))
    /\ \E loc \in PagesOf(nodes) :
           /\ loc # root_loc
           /\ HasKind(nodes, loc, "Internal")
           /\ Len(NodeOf(nodes, loc).keys) = MAX_KEYS

\* C32: read_node of a page index at or beyond the end of the backing store
\* returns empty and leaves page_reads (and the whole store) unchanged;
\* page_reads counts only the reads that obtained a full page from the
\* backing store: the call that was just made raised it by one exactly when
\* its page index was below the size of the file, and a write_node never
\* raises it.
C32_OnlyFullPageReadsCount ==
    /\ \A loc \in fs_total_nodes(fs)..(MaxLoc + 1) :
           /\ fs_read_node(fs, loc).node = None
           /\ fs_read_node(fs, loc).store = fs
    /\ last.op = "read" =>
           /\ fs.page_reads = last.reads_before
                  + (IF last.loc < last.total_before THEN 1 ELSE 0)
           /\ last.loc >= last.total_before => last.ret_fs = None
           /\ fs_total_nodes(fs) = last.total_before
    /\ last.op = "write" => fs.page_reads = last.reads_before
    /\ fs.page_reads <= MaxOps

\* read_node of page 0 of a file that holds no page returned empty and left
\* page_reads at zero (the case of the test read_empty_page_returns_none)
C32_Witness ==
    /\ last.op = "read"
    /\ last.loc = 0
    /\ last.total_before = 0
    /\ last.ret_fs = None
    /\ fs.page_reads = 0
    /\ fs_total_nodes(fs) = 0

\* the pages BTree::find reads for key, in order, starting at page current
RECURSIVE bt_find_pages(_, _, _)
bt_find_pages(f, current, key) ==
    LET node == ns_read_node(f, current) IN
    IF node.is_leaf THEN <<current>>
    ELSE LET step == bt_route(node, key, 0, I32_MIN) IN
         IF step.found THEN <<current>>
         ELSE <<current>> \o
              bt_find_pages(f, Unwrap(node.children[step.i + 1]), key)

RECURSIVE Chains(_, _, _, _)
RECURSIVE ChainsVia(_, _, _, _, _)
Chains(ns, from, target, fuel) ==
    IF read_node(ns, from) = None THEN 0
    ELSE (IF from = target THEN 1 ELSE 0)
         + (IF fuel > 0 /\ NodeOf(ns, from).kind = "Internal"
            THEN ChainsVia(ns, from, target, fuel, 1) ELSE 0)
ChainsVia(ns, from, target, fuel, i) ==
    IF i > Len(NodeOf(ns, from).children) THEN 0
    ELSE Chains(ns, NodeOf(ns, from).children[i], target, fuel - 1)
         + ChainsVia(ns, from, target, fuel, i + 1)

\* every page index held by the node of page loc: its children, or its next
\* link
PointersOf(ns, loc) ==
    LET n == NodeOf(ns, loc) IN
    IF n.kind = "Internal" THEN SeqSet(n.children)
    ELSE IF n.next = None THEN {} ELSE {Unwrap(n.next)}

\* C34: the pages form a tree rooted at root_loc: every page below
\* total_nodes() holds a node; every child pointer and every next link
\* refers to such a page (a next link to a leaf); the root is no node's
\* child, every other page is held by exactly one child slot and is reached
\* from the root through exactly one chain of child pointers, none longer
\* than the number of pages; hence the walk of find and of insert reads no
\* empty page and insert does not panic.
C34_PagesFormATree ==
    /\ root_loc \in PagesOf(nodes)
    /\ \A loc \in PagesOf(nodes) :
           /\ read_node(nodes, loc) # None
           /\ PointersOf(nodes, loc) \subseteq PagesOf(nodes)
           /\ HasKind(nodes, loc, "Leaf") =>
                  \A n \in PointersOf(nodes, loc) : HasKind(nodes, n, "Leaf")
           /\ Cardinality(ParentSlots(nodes, loc))
                  = (IF loc = root_loc THEN 0 ELSE 1)
           /\ Chains(nodes, root_loc, loc, total_nodes(nodes)) = 1
           /\ Chains(nodes, loc, loc, total_nodes(nodes)) = 1
    /\ \A k \in TallKeySet :
           LET way == PathTo(nodes, root_loc, k, total_nodes(nodes) + 1)
               t == insert(Tree(nodes, root_loc), k, 1)
           IN /\ \A j \in 1..Len(way) : read_node(nodes, way[j]) # None
              /\ HasKind(nodes, way[Len(way)], "Leaf")
              /\ ~t.panic
              /\ \A j \in 1..Len(t.reads) : t.reads[j][2] # None

\* a tree of three levels, built by leaf splits, an internal split below the
\* root and a root split: more than ten pages, every one of them in the tree
C34_Witness ==
    /\ HeightOf(nodes, root_loc) = 2
    /\ total_nodes(nodes) > 10
    /\ \A loc \in PagesOf(nodes) :
           Chains(nodes, root_loc, loc, total_nodes(nodes)) = 1
    /\ last.op = "insert"

\* the least number of keys a split leaves in a node
MinKeys == (MAX_KEYS + 1) \div 2

\* C35: every leaf and every internal node other than the root holds at
\* least floor((MAX_KEYS + 1) / 2) keys, and a root that is an Internal node
\* holds at least one key.
C35_MinimumOccupancy ==
    /\ \A loc \in PagesOf(nodes) :
           (loc # root_loc /\ read_node(nodes, loc) # None) =>
               Len(NodeOf(nodes, loc).keys) >= MinKeys
    /\ HasKind(nodes, root_loc, "Internal") =>
           Len(NodeOf(nodes, root_loc).keys) >= 1

\* a tree of three levels whose root holds one key and which has an internal
\* node below the root and a leaf that hold exactly floor((MAX_KEYS + 1) / 2)
\* keys each
C35_Witness ==
    /\ HeightOf(nodes, root_loc) = 2
    /\ Len(NodeOf(nodes, root_loc).keys) = 1
    /\ \E loc \in PagesOf(nodes) :
           /\ loc # root_loc
           /\ HasKind(nodes, loc, "Internal")
           /\ Len(NodeOf(nodes, loc).keys) = MinKeys
    /\ \E loc \in PagesOf(nodes) :
           /\ HasKind(nodes, loc, "Leaf")
           /\ Len(NodeOf(nodes, loc).keys) = MinKeys

====
